---- MODULE Spec2Model ----
(***************************************************************************)
(* Money_keeper: the ledger registry (FinanceCore), its accounts and       *)
(* transactions, the flat-file codec (saveData / loadData), and the rate   *)
(* table (CurrencyConverter, CurrencyFetcher) with its refresh, its file   *)
(* and its lock.                                                           *)
(*                                                                         *)
(* Conventions of the model                                                *)
(*  - Money is a C++ double in the source.  It is kept here as an integer  *)
(*    number of hundredths (1500.00 is 150000); the 0.01 tolerance of      *)
(*    Account::validate is one hundredth.  The rounding error of double    *)
(*    addition (relative 1e-16) is far below that tolerance and is not     *)
(*    modelled; the rounding done by the text encoding (six significant    *)
(*    digits) is.                                                          *)
(*  - A std::string is a sequence of tokens.  A token is a piece of text   *)
(*    holding none of the characters the codec looks at, one of those      *)
(*    characters on its own ("," ";" " " "]"), the header prefix           *)
(*    "[Account:", or the decimal text of a number (kept as the number it  *)
(*    denotes, in hundredths).  Joining, splitting, trimming and number    *)
(*    parsing then work on those sequences as the code works on chars.     *)
(*  - The default account name, a Cyrillic literal in the source, is       *)
(*    written "Obshchiy".                                                  *)
(***************************************************************************)
EXTENDS Integers, Sequences, FiniteSets, TLC

VARIABLES
    accounts,        \* FinanceCore::accounts: name -> Account
    currentAccount,  \* FinanceCore::currentAccount: the name of the map entry pointed to, or Dangling
    stale,           \* what the freed node holds while currentAccount dangles
    next_id,         \* Transaction::next_id
    rates_,          \* CurrencyConverter::rates_: code -> rate to RUB
    dataFile,        \* content of the file at FinanceCore::dataFile that is still to be read
    phase,           \* where the process is: constructing, running, exited, ...
    last,            \* the last operation and how it ended
    maintained,      \* harness only: accounts whose balance only add/remove have written
    rates_mutex_,    \* CurrencyConverter::rates_mutex_: "free" or the thread that holds it
    pc,              \* threads: where each thread is in its call
    call,            \* threads: the arguments and locals of each thread's call
    ret,             \* threads: what each thread's last call returned
    pending,         \* update_rates: the tables fetch_rates has still to pass to its callback
    called,          \* update_rates: invocations of the completion callback in this call
    ratesFile,       \* content of the file save_rates_to_file / load_rates_from_file use
    tx,              \* driver of Transaction: the Transaction object it works on
    dateObj,         \* driver of Date: the Date object it works on
    transactions_mutex, \* Account::transactions_mutex of the account two threads share
    expected         \* per id, calls of addTransaction that returned less calls of
                     \* removeTransaction that returned true

ratesVars == <<rates_mutex_, pc, call, ret, pending, called, ratesFile>>

\* the variables only the drivers of Transaction, Date and the two threads write
driverVars == <<tx, dateObj, transactions_mutex, expected>>

vars == <<accounts, currentAccount, stale, next_id, rates_, dataFile, phase, last, maintained,
          rates_mutex_, pc, call, ret, pending, called, ratesFile,
          tx, dateObj, transactions_mutex, expected>>

----------------------------------------------------------------------------
(* Bounds of the model *)

MaxId == 2
MaxLines == 3
MaxTx == 2

(* Program constants *)

Tolerance == 1
MAX_TAGS == 5
MinFields == 6
MinYear == 2000
MaxYear == 2100
SigDigits == 6

----------------------------------------------------------------------------
(* Text *)

Txt(s) == [k |-> "txt", s |-> s, n |-> 0]
Num(n) == [k |-> "num", s |-> "", n |-> n]
Str(s) == <<Txt(s)>>

SP == Txt(" ")
TAB == Txt("\t")
COMMA == Txt(",")
SEMI == Txt(";")
RBR == Txt("]")
HDR == Txt("[Account:")
DASH == Txt("-")

EmptyStr == <<>>

Abs(x) == IF x < 0 THEN -x ELSE x

\* integer part of a number held in hundredths, truncated toward zero
IntPart(n) == IF n >= 0 THEN n \div 100 ELSE -((-n) \div 100)

RECURSIVE Pow10(_)
Pow10(e) == IF e <= 0 THEN 1 ELSE 10 * Pow10(e - 1)

RECURSIVE Digits(_)
Digits(n) == IF n < 10 THEN 1 ELSE 1 + Digits(n \div 10)

\* operator<<(double) at the stream's default precision: six significant digits
RoundSig(a) ==
    LET m == Abs(a)
        d == Digits(m)
        scale == Pow10(d - SigDigits)
        r == ((m + (scale \div 2)) \div scale) * scale
    IN  IF a < 0 THEN -r ELSE r

FormatDouble(a) == <<Num(RoundSig(a))>>
FormatInt(i) == <<Num(i * 100)>>

RECURSIVE SplitAcc(_, _, _, _, _)
SplitAcc(s, sep, i, cur, out) ==
    IF i > Len(s)
    THEN IF cur = <<>> THEN out ELSE Append(out, cur)
    ELSE IF s[i] = sep
         THEN SplitAcc(s, sep, i + 1, <<>>, Append(out, cur))
         ELSE SplitAcc(s, sep, i + 1, Append(cur, s[i]), out)

\* while (std::getline(iss, field, sep)) fields.push_back(field)
Split(s, sep) == SplitAcc(s, sep, 1, <<>>, <<>>)

RECURSIVE JoinAcc(_, _, _, _)
JoinAcc(vec, sep, i, out) ==
    IF i > Len(vec) THEN out
    ELSE JoinAcc(vec, sep, i + 1, (IF i = 1 THEN out ELSE Append(out, sep)) \o vec[i])

join_strings(vec, delimiter) == JoinAcc(vec, delimiter, 1, <<>>)

IsBlank(tok) == tok = SP \/ tok = TAB

RECURSIVE TrimLeft(_)
TrimLeft(s) == IF s # <<>> /\ IsBlank(s[1]) THEN TrimLeft(Tail(s)) ELSE s

RECURSIVE TrimRight(_)
TrimRight(s) ==
    IF s # <<>> /\ IsBlank(s[Len(s)]) THEN TrimRight(SubSeq(s, 1, Len(s) - 1)) ELSE s

\* s.erase(0, s.find_first_not_of(" \t")); s.erase(s.find_last_not_of(" \t") + 1)
Trim(s) == TrimRight(TrimLeft(s))

\* std::stoi: leading white space skipped, the longest numeric prefix read,
\* std::invalid_argument when there is none
stoi(s) ==
    LET t == TrimLeft(s)
    IN  IF t # <<>> /\ t[1].k = "num"
        THEN [ok |-> TRUE, val |-> IntPart(t[1].n)]
        ELSE [ok |-> FALSE, val |-> 0]

\* std::stod, the value in hundredths
stod(s) ==
    LET t == TrimLeft(s)
    IN  IF t # <<>> /\ t[1].k = "num"
        THEN [ok |-> TRUE, val |-> t[1].n]
        ELSE [ok |-> FALSE, val |-> 0]

starts_with(str, prefix) ==
    Len(str) >= Len(prefix) /\ SubSeq(str, 1, Len(prefix)) = prefix

RECURSIVE FindFrom(_, _, _)
FindFrom(s, tok, i) ==
    IF i > Len(s) THEN 0 ELSE IF s[i] = tok THEN i ELSE FindFrom(s, tok, i + 1)

\* std::string::find: the first position of tok, 0 for npos
Find(s, tok) == FindFrom(s, tok, 1)

----------------------------------------------------------------------------
(* Date *)

is_leap_year(y) == (y % 4 = 0 /\ y % 100 # 0) \/ (y % 400 = 0)

DaysInMonth == <<31, 28, 31, 30, 31, 30, 31, 31, 30, 31, 30, 31>>

is_valid(d) ==
    /\ ~(d.year < MinYear \/ d.year > MaxYear)
    /\ ~(d.month < 1 \/ d.month > 12)
    /\ LET max_days == IF d.month = 2 /\ is_leap_year(d.year)
                       THEN 29 ELSE DaysInMonth[d.month]
       IN  d.day >= 1 /\ d.day <= max_days

\* is_valid on the three members
ValidYMD(y, m, d) == is_valid([year |-> y, month |-> m, day |-> d])

\* Date(int y, int m, int d): ok = FALSE is the std::invalid_argument it throws
Date(y, m, d) ==
    [ok |-> ValidYMD(y, m, d), val |-> [year |-> y, month |-> m, day |-> d]]

\* Date::seet_year: the member is assigned, checked, and put back before the throw
seet_year(self, y) ==
    LET temp == self.year
        assigned == [self EXCEPT !.year = y]
    IN  IF ~is_valid(assigned)
        THEN [ok |-> FALSE, val |-> [assigned EXCEPT !.year = temp]]
        ELSE [ok |-> TRUE, val |-> assigned]

\* Date::seet_month
seet_month(self, m) ==
    LET temp == self.month
        assigned == [self EXCEPT !.month = m]
    IN  IF ~is_valid(assigned)
        THEN [ok |-> FALSE, val |-> [assigned EXCEPT !.month = temp]]
        ELSE [ok |-> TRUE, val |-> assigned]

seet_day_NoRestore(self, d) ==
    LET assigned == [self EXCEPT !.day = d]
    IN  [ok |-> is_valid(assigned), val |-> assigned]

\* Date::seet_day
seet_day(self, d) ==
    LET temp == self.day
        assigned == [self EXCEPT !.day = d]
    IN  IF ~is_valid(assigned)
        THEN [ok |-> FALSE, val |-> [assigned EXCEPT !.day = temp]]
        ELSE [ok |-> TRUE, val |-> assigned]

\* Date::operator==
DateEq(self, other) ==
    self.year = other.year /\ self.month = other.month /\ self.month = other.month

MkDate(y, m, d) == [year |-> y, month |-> m, day |-> d]

\* operator<<(ostream, Date): "Y M D"
FormatDate(d) ==
    <<Num(d.year * 100), SP, Num(d.month * 100), SP, Num(d.day * 100)>>

\* date_iss >> y >> m >> d; Date(y, m, d).  A failed extraction stores 0 and
\* fails the ones after it, and Date(...) then throws on the 0: the outcome is
\* the same whichever of the three failed.
ParseDate(field) ==
    LET nb == SelectSeq(field, LAMBDA tok : ~IsBlank(tok))
        read == /\ Len(nb) >= 3
                /\ \A i \in 1..3 : nb[i].k = "num"
                /\ nb[1].n % 100 = 0
                /\ nb[2].n % 100 = 0
        d == IF read
             THEN MkDate(IntPart(nb[1].n), IntPart(nb[2].n), IntPart(nb[3].n))
             ELSE MkDate(0, 0, 0)
    IN  [ok |-> read /\ is_valid(d), val |-> d]

\* Date(): the day the process runs
Today == MkDate(2026, 11, 4)

----------------------------------------------------------------------------
(* CurrencyConverter *)

RUB == Str("RUB")
USD == Str("USD")

NoRates == [c \in {} |-> 0]

Rate1(rates, code) == IF code \in DOMAIN rates THEN rates[code] ELSE 1

convert_DefaultRate(rates, amount, from, to) ==
    IF from = to THEN [ok |-> TRUE, val |-> amount]
    ELSE [ok |-> TRUE, val |-> (amount * Rate1(rates, from)) \div Rate1(rates, to)]

\* CurrencyConverter::convert; ok = FALSE is the exception it throws
convert(rates, amount, from, to) ==
    IF from = to THEN [ok |-> TRUE, val |-> amount]
    ELSE IF DOMAIN rates = {} THEN [ok |-> FALSE, val |-> 0]
    ELSE IF from \notin DOMAIN rates \/ to \notin DOMAIN rates
         THEN [ok |-> FALSE, val |-> 0]
    ELSE [ok |-> TRUE, val |-> (amount * rates[from]) \div rates[to]]

is_currency_supported(rates, code) == code \in DOMAIN rates

----------------------------------------------------------------------------
(* Transaction *)

INCOME == 0
EXPENSE == 1

\* Transaction(): the id is taken from next_id by the caller
DefaultTransaction(id) ==
    [id |-> id, amount |-> 0, category |-> Str("Uncategorized"), type |-> EXPENSE,
     date |-> Today, description |-> EmptyStr, currency_ |-> RUB, tags_ |-> <<>>]

\* Transaction::validation: FALSE is the std::invalid_argument it throws
validation(t) ==
    /\ ~(t.amount <= 0)
    /\ t.category # EmptyStr
    /\ is_valid(t.date)

\* Transaction(amt, cat, t, d): the member initializers take the id with
\* next_id++, then the body calls validation().  next_id is the counter when
\* the constructor is left, by return or by exception.
Transaction(nid, amt, cat, t, d) ==
    LET made == [DefaultTransaction(nid) EXCEPT !.amount = amt, !.category = cat,
                                               !.type = t, !.date = d]
    IN  [ok |-> validation(made), val |-> made, next_id |-> nid + 1]

get_signed_amount(t) == IF t.type = INCOME THEN t.amount ELSE -t.amount

get_amount_in_rub(t, rates) == convert(rates, t.amount, t.currency_, RUB)

\* Transaction::set_date; ok = FALSE is the std::invalid_argument it throws
set_date(t, d) ==
    IF ~is_valid(d) THEN [ok |-> FALSE, val |-> t]
    ELSE [ok |-> TRUE, val |-> [t EXCEPT !.date = d]]

set_description(t, desc) ==
    [t EXCEPT !.description = IF desc = EmptyStr THEN Str("--") ELSE desc]

add_tag_NoLimit(t, tag) ==
    IF \E i \in 1..Len(t.tags_) : t.tags_[i] = tag THEN [ok |-> FALSE, val |-> t]
    ELSE [ok |-> TRUE, val |-> [t EXCEPT !.tags_ = Append(@, tag)]]

\* Transaction::add_tag; ok = FALSE is the std::runtime_error it throws
add_tag(t, tag) ==
    IF Len(t.tags_) >= MAX_TAGS THEN [ok |-> FALSE, val |-> t]
    ELSE IF \E i \in 1..Len(t.tags_) : t.tags_[i] = tag THEN [ok |-> FALSE, val |-> t]
    ELSE [ok |-> TRUE, val |-> [t EXCEPT !.tags_ = Append(@, tag)]]

\* Transaction::remove_tag(size_t index): index counts from 0
remove_tag(t, index) ==
    IF index < Len(t.tags_)
    THEN [t EXCEPT !.tags_ = SubSeq(@, 1, index) \o SubSeq(@, index + 2, Len(@))]
    ELSE t

\* the tuple the persistence round trip is about
TxTuple(t) ==
    <<t.id, t.amount, t.type, t.category, t.date, t.currency_, t.description, t.tags_>>

----------------------------------------------------------------------------
(* Account *)

Account(accountName) == [name |-> accountName, balance |-> 0, transactions |-> <<>>]

HasId(acc, id) == \E i \in 1..Len(acc.transactions) : acc.transactions[i].id = id

addTransaction_PushFirst(acc, t) ==
    [ok |-> ~HasId(acc, t.id),
     val |-> [acc EXCEPT !.transactions = Append(@, t),
                         !.balance = @ + get_signed_amount(t)]]

\* Account::addTransaction; ok = FALSE is the std::invalid_argument it throws
addTransaction(acc, t) ==
    IF HasId(acc, t.id) THEN [ok |-> FALSE, val |-> acc]
    ELSE [ok |-> TRUE,
          val |-> [acc EXCEPT !.transactions = Append(@, t),
                              !.balance = @ + get_signed_amount(t)]]

RemoveAt(s, i) == SubSeq(s, 1, i - 1) \o SubSeq(s, i + 1, Len(s))

FirstWithId(acc, id) ==
    IF HasId(acc, id)
    THEN CHOOSE i \in 1..Len(acc.transactions) :
            /\ acc.transactions[i].id = id
            /\ \A j \in 1..(i - 1) : acc.transactions[j].id # id
    ELSE 0

removeTransaction_KeepBalance(acc, id) ==
    LET it == FirstWithId(acc, id)
    IN  IF it # 0
        THEN [ok |-> TRUE, val |-> [acc EXCEPT !.transactions = RemoveAt(@, it)]]
        ELSE [ok |-> FALSE, val |-> acc]

\* Account::removeTransaction; ok is the value it returns
removeTransaction(acc, id) ==
    LET it == FirstWithId(acc, id)
    IN  IF it # 0
        THEN [ok |-> TRUE,
              val |-> [acc EXCEPT !.balance = @ - get_signed_amount(acc.transactions[it]),
                                  !.transactions = RemoveAt(@, it)]]
        ELSE [ok |-> FALSE, val |-> acc]

RECURSIVE SumInRub(_, _, _)
SumInRub(txs, rates, i) ==
    IF i > Len(txs) THEN [ok |-> TRUE, val |-> 0]
    ELSE LET c == get_amount_in_rub(txs[i], rates)
             rest == SumInRub(txs, rates, i + 1)
         IN  [ok |-> c.ok /\ rest.ok, val |-> c.val + rest.val]

\* Account::recalculateBalance; ok = FALSE is the exception convert throws,
\* which leaves balance as it was
recalculateBalance(acc, rates) ==
    LET new_balance == SumInRub(acc.transactions, rates, 1)
    IN  IF new_balance.ok
        THEN [ok |-> TRUE, val |-> [acc EXCEPT !.balance = new_balance.val]]
        ELSE [ok |-> FALSE, val |-> acc]

\* Account::validate
validate(acc, rates) ==
    LET calculated == SumInRub(acc.transactions, rates, 1)
    IN  [ok |-> calculated.ok,
         val |-> calculated.ok /\ Abs(calculated.val - acc.balance) < Tolerance]

\* Account::move_transactions_from: the pair (self, other) afterwards.  The
\* source's vector is moved from and left empty; its balance is not written.
move_transactions_from(self, other) ==
    [self |-> [self EXCEPT !.balance = other.balance,
                           !.transactions = other.transactions],
     other |-> [other EXCEPT !.transactions = <<>>]]

\* Account::merge_account up to the call of recalculateBalance: Transaction
\* declares a copy constructor and no move constructor, so the move iterators
\* copy, and the source's vector is not cleared.
MergeInsert(self, other) ==
    [self |-> [self EXCEPT !.transactions = @ \o other.transactions],
     other |-> other]

----------------------------------------------------------------------------
(* FinanceCore: the account map *)

DefaultName == Str("Obshchiy")
NameA == Str("A")
NameB == Str("B")

\* std::map iterates its keys in byte order; the Cyrillic default name sorts
\* after the ASCII names
NameOrder == <<NameA, NameB, DefaultName>>

SortedKeys(m) == SelectSeq(NameOrder, LAMBDA n : n \in DOMAIN m)

NoAccounts == [n \in {} |-> Account(n)]

\* accounts.emplace(name, Account(name)) for a name that is not a key
Emplace(m, name) == [n \in DOMAIN m \cup {name} |-> IF n = name THEN Account(name) ELSE m[n]]

Erase(m, name) == [n \in DOMAIN m \ {name} |-> m[n]]

Dangling == <<Txt("<dangling>")>>
NoStale == Account(EmptyStr)

----------------------------------------------------------------------------
(* File_Manager: the flat-file codec *)

NoFile == [exists |-> FALSE, lines |-> <<>>]
File(ls) == [exists |-> TRUE, lines |-> ls]

TagsField(t) == IF t.tags_ = <<>> THEN <<DASH>> ELSE join_strings(t.tags_, SEMI)

\* one transaction line of FinanceCore::saveData
RecordLine(t) ==
    FormatInt(t.id) \o <<COMMA>> \o FormatDouble(t.amount) \o <<COMMA>>
    \o FormatInt(t.type) \o <<COMMA>> \o t.category \o <<COMMA>>
    \o FormatDate(t.date) \o <<COMMA>> \o t.currency_ \o <<COMMA>>
    \o t.description \o <<COMMA>> \o TagsField(t)

HeaderLine(name) == <<HDR>> \o name \o <<RBR>>

RECURSIVE RecordLines(_, _)
RecordLines(txs, i) ==
    IF i > Len(txs) THEN <<>> ELSE <<RecordLine(txs[i])>> \o RecordLines(txs, i + 1)

RECURSIVE SectionLines(_, _, _)
SectionLines(m, keys, i) ==
    IF i > Len(keys) THEN <<>>
    ELSE <<HeaderLine(keys[i])>> \o RecordLines(m[keys[i]].transactions, 1)
         \o SectionLines(m, keys, i + 1)

\* the lines FinanceCore::saveData writes
SaveLines(m) == SectionLines(m, SortedKeys(m), 1)

RECURSIVE AddTags(_, _, _)
AddTags(t, tags, i) ==
    IF i > Len(tags) THEN [ok |-> TRUE, val |-> t]
    ELSE IF tags[i] = EmptyStr THEN AddTags(t, tags, i + 1)
    ELSE LET r == add_tag(t, tags[i])
         IN  IF r.ok THEN AddTags(r.val, tags, i + 1) ELSE [ok |-> FALSE, val |-> t]

\* the record a line's fields give once they are converted: ok = FALSE is an
\* exception of the try block (the line is skipped), seen tells whether
\* fields[0] was read as an id
FinishRecord(id, ok, tagged) ==
    IF ~id.ok THEN [ok |-> FALSE, seen |-> FALSE, id |-> 0, val |-> tagged.val]
    ELSE [ok |-> ok /\ tagged.ok, seen |-> TRUE, id |-> id.val, val |-> tagged.val]

TagRecord(t1, fields) ==
    IF Len(fields) > 7 /\ fields[8] # <<DASH>>
    THEN AddTags(t1, Split(fields[8], SEMI), 1)
    ELSE [ok |-> TRUE, val |-> t1]

BuildRecord(t, fields, id, amount, type, date, cur) ==
    FinishRecord(id, amount.ok /\ type.ok /\ date.ok,
        TagRecord([t EXCEPT !.id = id.val, !.amount = amount.val,
                            !.type = type.val, !.category = fields[4],
                            !.date = date.val,
                            !.currency_ = IF cur = EmptyStr THEN RUB ELSE cur,
                            !.description = IF Len(fields) > 6 THEN Trim(fields[7])
                                            ELSE Str("--")],
                  fields))

ParseFields(fields, t) ==
    IF Len(fields) < MinFields
    THEN [ok |-> FALSE, seen |-> FALSE, id |-> 0, val |-> t]
    ELSE BuildRecord(t, fields, stoi(fields[1]), stod(fields[2]), stoi(fields[3]),
                     ParseDate(fields[5]), Trim(fields[6]))

\* the try block of FinanceCore::loadData up to the addTransaction call, for
\* the Transaction t the loop constructed
ParseRecord(line, t) == ParseFields(Split(line, COMMA), t)

\* the end of the try block: the max_id update, and addTransaction on the
\* account of the current section
StoreRecord(st, r) ==
    LET added == addTransaction(st.accounts[st.name], r.val)
        st1 == [st EXCEPT !.next_id = @ + 1,
                          !.max_id = IF r.seen /\ r.id > @ THEN r.id ELSE @]
    IN  IF r.ok /\ added.ok
        THEN [st1 EXCEPT !.accounts[st.name] = added.val]
        ELSE st1

\* a header line, name being the text between "[Account:" and "]"
OpenSection(st, name) ==
    IF name \in DOMAIN st.accounts THEN [st EXCEPT !.name = name]
    ELSE IF name = EmptyStr
         THEN [st EXCEPT !.name = name, !.threw = TRUE]
         ELSE [st EXCEPT !.name = name, !.accounts = Emplace(@, name)]

HeaderName(line, end) == SubSeq(line, 2, end - 1)

\* one iteration of the read loop of FinanceCore::loadData on state
\* st = [accounts, name, max_id, next_id, threw]
LoadLine(st, line) ==
    IF line = <<>> THEN st
    ELSE IF starts_with(line, <<HDR>>)
    THEN IF Find(line, RBR) = 0 THEN st
         ELSE OpenSection(st, HeaderName(line, Find(line, RBR)))
    ELSE StoreRecord(st, ParseRecord(line, DefaultTransaction(st.next_id)))

RECURSIVE LoadLines(_, _, _)
LoadLines(st, lines, i) ==
    IF i > Len(lines) \/ st.threw THEN st
    ELSE LoadLines(LoadLine(st, lines[i]), lines, i + 1)

\* the closing loop of loadData: recalculateBalance on every account in map
\* order, which stops at the first one whose conversion throws
RECURSIVE RecalcAll(_, _, _, _)
RecalcAll(m, rates, keys, i) ==
    IF i > Len(keys) THEN [ok |-> TRUE, val |-> m]
    ELSE LET r == recalculateBalance(m[keys[i]], rates)
         IN  IF r.ok
             THEN RecalcAll([m EXCEPT ![keys[i]] = r.val], rates, keys, i + 1)
             ELSE [ok |-> FALSE, val |-> m]

LoadRecalc_NoIncrement(st, rc) ==
    [accounts |-> rc.val,
     next_id |-> IF st.max_id > 0 THEN st.max_id ELSE st.next_id,
     threw |-> ~rc.ok, read |-> TRUE]

\* the end of loadData: the id counter moves past the largest id read
LoadRecalc(st, rc) ==
    [accounts |-> rc.val,
     next_id |-> IF st.max_id > 0 THEN st.max_id + 1 ELSE st.next_id,
     threw |-> ~rc.ok, read |-> TRUE]

LoadFinish(st, rates) ==
    IF st.threw
    THEN [accounts |-> st.accounts, next_id |-> st.next_id, threw |-> TRUE, read |-> TRUE]
    ELSE LoadRecalc(st, RecalcAll(st.accounts, rates, SortedKeys(st.accounts), 1))

LoadStart(nid) ==
    [accounts |-> Emplace(NoAccounts, DefaultName), name |-> DefaultName,
     max_id |-> 0, next_id |-> nid, threw |-> FALSE]

\* FinanceCore::loadData as a function of the file, the rate table and
\* next_id: the registry it leaves and whether it returned or threw
LoadResult(file, rates, nid) ==
    IF ~file.exists
    THEN [accounts |-> Emplace(NoAccounts, DefaultName), next_id |-> nid,
          threw |-> FALSE, read |-> FALSE]
    ELSE LoadFinish(LoadLines(LoadStart(nid), file.lines, 1), rates)

----------------------------------------------------------------------------
(* Inputs *)

FullRates == (RUB :> 1) @@ (USD :> 90)
RateTables == {NoRates, FullRates}

\* what the user types into the account dialogs; "0" cancels a rename
CancelName == Str("0")
CreateNames == {DefaultName, NameA, NameB, EmptyStr}
RenameNames == CreateNames \cup {CancelName}

\* what the user types into the transaction dialog (Transactions.cpp, steps 1-6)
Dialogs ==
    { [type |-> 1, amount |-> 1234567, currency |-> USD, category |-> Str("Salary"),
       date |-> MkDate(2024, 2, 29), desc |-> EmptyStr, tags |-> <<>>],
      [type |-> 2, amount |-> 75050, currency |-> RUB, category |-> Str("Rent"),
       date |-> MkDate(2023, 5, 20), desc |-> Str("flat"), tags |-> <<Str("food")>>] }


\* lines a data file may hold
LineHeaderA == HeaderLine(NameA)
LineHeaderEmpty == <<HDR, RBR>>
LineIncome ==
    <<Num(100), COMMA, Num(150000), COMMA, Num(0), COMMA, Txt("Salary"), COMMA,
      Num(202300), SP, Num(500), SP, Num(1500), COMMA, Txt("RUB"), COMMA, COMMA, DASH>>
LineUsd ==
    <<Num(200), COMMA, Num(10000), COMMA, Num(100), COMMA, Txt("Gift"), COMMA,
      Num(202300), SP, Num(500), SP, Num(2100), COMMA, Txt("USD"), COMMA,
      Txt("flat"), COMMA, Txt("food")>>
LineShort == <<Txt("oops"), COMMA, Num(100), COMMA, Num(200)>>
\* "1,-50,7,,2023 5 15, , ,-": a negative amount, a type that is no
\* enumerator, an empty category, a blank currency and a blank description
LineBlank ==
    <<Num(100), COMMA, Num(-5000), COMMA, Num(700), COMMA, COMMA,
      Num(202300), SP, Num(500), SP, Num(1500), COMMA, SP, COMMA, SP, COMMA, DASH>>

ArbitraryLines == {LineHeaderA, LineHeaderEmpty, LineIncome, LineUsd, LineShort, LineBlank}

SeqsUpTo(S, n) == UNION {[1..k -> S] : k \in 0..n}

Files == {NoFile} \cup {File(ls) : ls \in SeqsUpTo(ArbitraryLines, MaxLines)}

----------------------------------------------------------------------------
(* FinanceCore: the operations *)

\* the operation that ran last and how it ended: "ok", "refused" (it returned
\* without doing its work) or "threw"
Op(op, result) == [op |-> op, result |-> result]

Live == currentAccount \in DOMAIN accounts

\* *currentAccount: the map entry, or what the freed node still holds
CurObj == IF Live THEN accounts[currentAccount] ELSE stale

\* *currentAccount = obj
SetCurObj(obj) ==
    IF Live
    THEN /\ accounts' = [accounts EXCEPT ![currentAccount] = obj]
         /\ UNCHANGED stale
    ELSE /\ stale' = obj
         /\ UNCHANGED accounts

Threads == {"reader", "refresher"}

NoCall == [amount |-> 0, from |-> EmptyStr, to |-> EmptyStr, new_rates |-> NoRates,
           callback |-> ""]
NoReturn == [op |-> "", ok |-> TRUE, val |-> 0]
NoRatesFile == [exists |-> FALSE, parses |-> FALSE, entries |-> <<>>]
NoExpected == [id \in 1..MaxTx |-> 0]

\* the drivers of Transaction, Date and the two threads before they start
DriversIdle ==
    /\ tx = DefaultTransaction(1)
    /\ dateObj = Today
    /\ transactions_mutex = "free"
    /\ expected = NoExpected

\* the converter with no call in progress and no file written
ConverterIdle ==
    /\ rates_mutex_ = "free"
    /\ pc = [t \in Threads |-> "idle"]
    /\ call = [t \in Threads |-> NoCall]
    /\ ret = [t \in Threads |-> NoReturn]
    /\ pending = <<>>
    /\ called = 0
    /\ ratesFile = NoRatesFile

\* the process has ended or will never return to the menu: its objects are
\* gone, and the variables go back to the values of construction
Gone(ph, op, result) ==
    /\ accounts' = Emplace(NoAccounts, DefaultName)
    /\ currentAccount' = DefaultName
    /\ stale' = NoStale
    /\ next_id' = 1
    /\ rates_' = NoRates
    /\ phase' = ph
    /\ last' = Op(op, result)

\* FinanceCore::FinanceCore up to its call of loadData.  The converter is
\* empty in the constructor of src; a rate cache read before the load gives
\* the other table.  dataFile is what loadData will read.
Init ==
    /\ ConverterIdle
    /\ DriversIdle
    /\ accounts = Emplace(NoAccounts, DefaultName)
    /\ currentAccount = DefaultName
    /\ stale = NoStale
    /\ next_id = 1
    /\ rates_ \in RateTables
    /\ dataFile \in Files
    /\ phase = "constructing"
    /\ last = Op("FinanceCore", "ok")
    /\ maintained = {}

\* what loadData leaves in the registry, r being its result
Loaded(r) ==
    IF r.threw
    THEN Gone("terminated", "loadData", "threw")
    ELSE /\ accounts' = r.accounts
         /\ next_id' = r.next_id
         /\ currentAccount' = DefaultName
         /\ phase' = "running"
         /\ last' = Op("loadData", "ok")
         /\ UNCHANGED <<stale, rates_>>

\* FinanceCore::loadData, called by the constructor.  An exception leaves the
\* constructor and main() ends the process.  The file is read once, and is
\* not kept after that.
LoadData ==
    /\ phase = "constructing"
    /\ Loaded(LoadResult(dataFile, rates_, next_id))
    /\ dataFile' = NoFile
    /\ UNCHANGED maintained
    /\ UNCHANGED <<ratesVars, driverVars>>

\* menu item 0: FinanceCore::saveData, then the process exits
SaveData ==
    /\ phase = "running"
    /\ \E canOpen \in BOOLEAN :
        /\ dataFile' = IF canOpen THEN File(SaveLines(accounts)) ELSE dataFile
        /\ Gone("exited", "saveData", IF canOpen THEN "ok" ELSE "refused")
    /\ UNCHANGED maintained
    /\ UNCHANGED <<ratesVars, driverVars>>

\* FinanceCore::createAccount
CreateAccount(name) ==
    /\ phase = "running"
    /\ IF name \in DOMAIN accounts
       THEN /\ last' = Op("createAccount", "refused")
            /\ UNCHANGED <<accounts, currentAccount, stale, next_id, rates_, phase>>
       ELSE IF name = EmptyStr
       THEN Gone("terminated", "createAccount", "threw")
       ELSE /\ accounts' = Emplace(accounts, name)
            /\ last' = Op("createAccount", "ok")
            /\ \/ UNCHANGED <<currentAccount, stale>>
               \/ /\ ~Live      \* the new node takes the freed node's address
                  /\ currentAccount' = name
                  /\ stale' = NoStale
            /\ UNCHANGED <<next_id, rates_, phase>>
    /\ UNCHANGED <<dataFile, maintained>>
    /\ UNCHANGED <<ratesVars, driverVars>>

\* FinanceCore::selectAccount
SelectAccount(choice) ==
    /\ phase = "running"
    /\ LET keys == SortedKeys(accounts)
       IN  IF DOMAIN accounts = {} \/ choice = 0 \/ choice < 1 \/ choice > Len(keys)
           THEN /\ last' = Op("selectAccount", "refused")
                /\ UNCHANGED <<currentAccount, stale>>
           ELSE /\ currentAccount' = keys[choice]
                /\ stale' = NoStale
                /\ last' = Op("selectAccount", "ok")
    /\ UNCHANGED <<accounts, next_id, rates_, dataFile, phase, maintained>>
    /\ UNCHANGED <<ratesVars, driverVars>>

LastAccount_Off(m) == Cardinality(DOMAIN m) < 1

\* the first test of deleteAccount: accounts.size() <= 1
LastAccount(m) == Cardinality(DOMAIN m) <= 1

\* FinanceCore::deleteAccount
DeleteAccount(choice) ==
    /\ phase = "running"
    /\ LET keys == SortedKeys(accounts)
       IN  IF LastAccount(accounts)
              \/ choice = 0 \/ choice < 1 \/ choice > Len(keys)
           THEN /\ last' = Op("deleteAccount", "refused")
                /\ UNCHANGED <<accounts, currentAccount, stale, next_id, rates_, phase>>
           ELSE LET it == keys[choice]
                IN  IF currentAccount = it /\ DefaultName \notin DOMAIN accounts
                    THEN \* accounts.at("Obshchiy") throws std::out_of_range
                         Gone("terminated", "deleteAccount", "threw")
                    ELSE /\ accounts' = Erase(accounts, it)
                         /\ IF currentAccount = it /\ it = DefaultName
                            THEN /\ currentAccount' = Dangling
                                 /\ stale' = accounts[it]
                            ELSE /\ currentAccount' =
                                        IF currentAccount = it THEN DefaultName
                                        ELSE currentAccount
                                 /\ UNCHANGED stale
                         /\ last' = Op("deleteAccount", "ok")
                         /\ UNCHANGED <<next_id, rates_, phase>>
    /\ UNCHANGED <<dataFile, maintained>>
    /\ UNCHANGED <<ratesVars, driverVars>>

\* FinanceCore::renameAccount
RenameAccount(newName) ==
    /\ phase = "running"
    /\ IF newName = CancelName \/ newName \in DOMAIN accounts
       THEN /\ last' = Op("renameAccount", "refused")
            /\ UNCHANGED <<accounts, currentAccount, stale, next_id, rates_, phase>>
       ELSE IF newName = EmptyStr
       THEN Gone("terminated", "renameAccount", "threw")
       ELSE \/ LET old == CurObj
                   moved == move_transactions_from(Account(newName), old)
                   m1 == [n \in DOMAIN accounts \cup {newName} |->
                            IF n = newName THEN moved.self
                            ELSE IF n = currentAccount THEN moved.other
                            ELSE accounts[n]]
               IN  /\ accounts' = IF old.name # DefaultName
                                  THEN Erase(m1, old.name) ELSE m1
                   /\ currentAccount' = newName
                   /\ stale' = NoStale
                   /\ last' = Op("renameAccount", "ok")
                   /\ UNCHANGED <<next_id, rates_, phase>>
            \/ \* the new node takes the freed node's address: the account is
               \* moved onto itself, erased under its own name, and
               \* accounts.at(newName) throws
               /\ ~Live
               /\ Gone("terminated", "renameAccount", "threw")
    /\ UNCHANGED <<dataFile, maintained>>
    /\ UNCHANGED <<ratesVars, driverVars>>

RECURSIVE AddDialogTags(_, _, _)
AddDialogTags(t, tags, i) ==
    IF i > Len(tags) THEN t
    ELSE LET r == add_tag(t, tags[i]) IN AddDialogTags(r.val, tags, i + 1)

\* the transaction the dialog has built when it reaches step 7
DialogTransaction(d, id, rates) ==
    LET t0 == DefaultTransaction(id)
        currency == IF is_currency_supported(rates, d.currency) THEN d.currency ELSE RUB
        t1 == [t0 EXCEPT !.type = IF d.type = 1 THEN INCOME ELSE EXPENSE,
                         !.amount = d.amount,
                         !.currency_ = currency,
                         !.category = d.category,
                         !.date = d.date]
    IN  AddDialogTags(set_description(t1, d.desc), d.tags, 1)

\* FinanceCore::addTransaction, the dialog carried through to step 7.  When
\* convert throws after the transaction is stored, step 7 is repeated, the
\* duplicate id is refused, and the dialog never ends.
AddTransaction(d) ==
    /\ phase = "running"
    /\ next_id < MaxId
    /\ LET newTrans == DialogTransaction(d, next_id, rates_)
           added == addTransaction(CurObj, newTrans)
           rub == get_amount_in_rub(newTrans, rates_)
       IN  IF added.ok /\ rub.ok
           THEN /\ SetCurObj(added.val)
                /\ next_id' = next_id + 1
                /\ last' = Op("addTransaction", "ok")
                /\ UNCHANGED <<currentAccount, rates_, phase>>
           ELSE Gone("hung", "addTransaction", "threw")
    /\ UNCHANGED <<dataFile, maintained>>
    /\ UNCHANGED <<ratesVars, driverVars>>

\* FinanceCore::addTransaction cancelled at one of its steps: the Transaction
\* it constructed has taken an id
CancelTransaction ==
    /\ phase = "running"
    /\ next_id < MaxId
    /\ next_id' = next_id + 1
    /\ last' = Op("addTransaction", "refused")
    /\ UNCHANGED <<accounts, currentAccount, stale, rates_, dataFile, phase, maintained>>
    /\ UNCHANGED <<ratesVars, driverVars>>

\* FinanceCore::removeTransaction
RemoveTransaction(id) ==
    /\ phase = "running"
    /\ IF CurObj.transactions = <<>> \/ id = 0
       THEN /\ last' = Op("removeTransaction", "refused")
            /\ UNCHANGED <<accounts, stale>>
       ELSE LET r == removeTransaction(CurObj, id)
            IN  /\ SetCurObj(r.val)
                /\ last' = Op("removeTransaction", IF r.ok THEN "ok" ELSE "refused")
    /\ UNCHANGED <<currentAccount, next_id, rates_, dataFile, phase, maintained>>
    /\ UNCHANGED <<ratesVars, driverVars>>

\* a read or write through the dangling currentAccount faults
UseAfterFree ==
    /\ phase = "running"
    /\ ~Live
    /\ Gone("crashed", "menu", "threw")
    /\ UNCHANGED <<dataFile, maintained>>
    /\ UNCHANGED <<ratesVars, driverVars>>

Next ==
    \/ LoadData
    \/ SaveData
    \/ \E name \in CreateNames : CreateAccount(name)
    \/ \E choice \in 0..4 : SelectAccount(choice)
    \/ \E choice \in 0..4 : DeleteAccount(choice)
    \/ \E newName \in RenameNames : RenameAccount(newName)
    \/ \E d \in Dialogs : AddTransaction(d)
    \/ CancelTransaction
    \/ \E id \in 0..MaxId : RemoveTransaction(id)
    \/ UseAfterFree

Spec == Init /\ [][Next]_vars

----------------------------------------------------------------------------
(* Account: the class driven through its public operations, on two accounts *)

HarnessNames == {NameA, NameB}

\* the transactions the driver constructs
HarnessTx ==
    { [type |-> INCOME, amount |-> 150000, currency |-> RUB],
      [type |-> EXPENSE, amount |-> 75050, currency |-> RUB],
      [type |-> EXPENSE, amount |-> 10000, currency |-> USD] }

\* maintained: the accounts whose balance has been written by nothing but
\* the constructor, addTransaction and removeTransaction
InitAccount ==
    /\ ConverterIdle
    /\ DriversIdle
    /\ accounts = [n \in HarnessNames |-> Account(n)]
    /\ currentAccount = NameA
    /\ stale = NoStale
    /\ next_id = 1
    /\ rates_ = FullRates
    /\ dataFile = NoFile
    /\ phase = "harness"
    /\ last = Op("Account", "ok")
    /\ maintained = HarnessNames

\* Transaction(amt, cat, type, date), set_currency, Account::addTransaction
AccAdd(n, x) ==
    /\ phase = "harness"
    /\ next_id <= MaxTx
    /\ LET t == [DefaultTransaction(next_id) EXCEPT !.amount = x.amount,
                    !.type = x.type, !.currency_ = x.currency,
                    !.category = Str("Salary")]
           r == addTransaction(accounts[n], t)
       IN  /\ accounts' = [accounts EXCEPT ![n] = r.val]
           /\ last' = Op("addTransaction", IF r.ok THEN "ok" ELSE "threw")
    /\ next_id' = next_id + 1
    /\ UNCHANGED <<currentAccount, stale, rates_, dataFile, phase, maintained>>
    /\ UNCHANGED <<ratesVars, driverVars>>

\* Account::removeTransaction
AccRemove(n, id) ==
    /\ phase = "harness"
    /\ LET r == removeTransaction(accounts[n], id)
       IN  /\ accounts' = [accounts EXCEPT ![n] = r.val]
           /\ last' = Op("removeTransaction", IF r.ok THEN "ok" ELSE "refused")
    /\ UNCHANGED <<currentAccount, stale, next_id, rates_, dataFile, phase, maintained>>
    /\ UNCHANGED <<ratesVars, driverVars>>

\* Account::recalculateBalance
AccRecalculate(n) ==
    /\ phase = "harness"
    /\ LET r == recalculateBalance(accounts[n], rates_)
       IN  /\ accounts' = [accounts EXCEPT ![n] = r.val]
           /\ last' = Op("recalculateBalance", IF r.ok THEN "ok" ELSE "threw")
           /\ maintained' = IF r.ok THEN maintained \ {n} ELSE maintained
    /\ UNCHANGED <<currentAccount, stale, next_id, rates_, dataFile, phase>>
    /\ UNCHANGED <<ratesVars, driverVars>>

\* Account::merge_account: self.merge_account(std::move(other), converter).
\* It calls recalculateBalance while holding transactions_mutex, which
\* recalculateBalance locks again: the thread blocks for ever, or (the
\* relock being undefined behaviour) the call goes through.
AccMerge(self, other) ==
    /\ phase = "harness"
    /\ self # other
    /\ Len(accounts[self].transactions) + Len(accounts[other].transactions) <= MaxTx
    /\ LET ins == MergeInsert(accounts[self], accounts[other])
           r == recalculateBalance(ins.self, rates_)
       IN  \/ /\ accounts' = [accounts EXCEPT ![self] = ins.self, ![other] = ins.other]
              /\ phase' = "hung"
              /\ last' = Op("merge_account", "hung")
              /\ UNCHANGED maintained
           \/ /\ accounts' = [accounts EXCEPT ![self] = r.val, ![other] = ins.other]
              /\ last' = Op("merge_account", IF r.ok THEN "ok" ELSE "threw")
              /\ maintained' = IF r.ok THEN maintained \ {self} ELSE maintained
              /\ UNCHANGED phase
    /\ UNCHANGED <<currentAccount, stale, next_id, rates_, dataFile>>
    /\ UNCHANGED <<ratesVars, driverVars>>

\* Account::addTransaction of a copy of a transaction that an account holds
\* (Transaction's copy constructor keeps the id).  The driver does this on
\* accounts whose balance only addTransaction and removeTransaction have
\* written, which keeps the balances of the runs bounded.
AccAddCopy(n, other, i) ==
    /\ phase = "harness"
    /\ n \in maintained
    /\ i \in 1..Len(accounts[other].transactions)
    /\ Len(accounts[n].transactions) < MaxTx
    /\ LET r == addTransaction(accounts[n], accounts[other].transactions[i])
       IN  /\ accounts' = [accounts EXCEPT ![n] = r.val]
           /\ last' = Op("addTransaction", IF r.ok THEN "ok" ELSE "threw")
    /\ UNCHANGED <<currentAccount, stale, next_id, rates_, dataFile, phase, maintained>>
    /\ UNCHANGED <<ratesVars, driverVars>>

\* Account::move_transactions_from: self.move_transactions_from(std::move(other))
AccMove(self, other) ==
    /\ phase = "harness"
    /\ self # other
    /\ LET moved == move_transactions_from(accounts[self], accounts[other])
       IN  accounts' = [accounts EXCEPT ![self] = moved.self, ![other] = moved.other]
    /\ last' = Op("move_transactions_from", "ok")
    /\ maintained' = maintained \ {self, other}
    /\ UNCHANGED <<currentAccount, stale, next_id, rates_, dataFile, phase>>
    /\ UNCHANGED <<ratesVars, driverVars>>

\* the arguments the driver passes to Transaction(amt, cat, type, Date(y, m, d))
CtorArgs ==
    { [amount |-> 150000, category |-> Str("Salary"), type |-> INCOME,
       date |-> MkDate(2023, 5, 20)],
      [amount |-> 0, category |-> Str("Salary"), type |-> INCOME,
       date |-> MkDate(2023, 5, 20)],
      [amount |-> -50000, category |-> Str("Rent"), type |-> EXPENSE,
       date |-> MkDate(2023, 5, 20)],
      [amount |-> 75050, category |-> EmptyStr, type |-> EXPENSE,
       date |-> MkDate(2023, 5, 20)],
      [amount |-> 75050, category |-> Str("Rent"), type |-> EXPENSE,
       date |-> MkDate(2023, 2, 30)] }

\* Transaction t(amt, cat, type, Date(y, m, d)): the Date argument is
\* constructed first and throws when it is invalid, before the Transaction
\* constructor is entered
AccConstruct(a) ==
    /\ phase = "harness"
    /\ next_id <= MaxTx
    /\ IF ~is_valid(a.date)
       THEN /\ last' = Op("Date", "threw")
            /\ UNCHANGED next_id
       ELSE LET r == Transaction(next_id, a.amount, a.category, a.type, a.date)
            IN  /\ next_id' = r.next_id
                /\ last' = Op("Transaction", IF r.ok THEN "ok" ELSE "threw")
    /\ UNCHANGED <<accounts, currentAccount, stale, rates_, dataFile, phase, maintained>>
    /\ UNCHANGED <<ratesVars, driverVars>>

NextAccount ==
    \/ \E a \in CtorArgs : AccConstruct(a)
    \/ \E self \in HarnessNames, other \in HarnessNames : AccMove(self, other)
    \/ \E n \in HarnessNames, other \in HarnessNames, i \in 1..MaxTx : AccAddCopy(n, other, i)
    \/ \E n \in HarnessNames, x \in HarnessTx : AccAdd(n, x)
    \/ \E n \in HarnessNames, id \in 1..MaxTx : AccRemove(n, id)
    \/ \E n \in HarnessNames : AccRecalculate(n)
    \/ \E self \in HarnessNames, other \in HarnessNames : AccMerge(self, other)

SpecAccount == InitAccount /\ [][NextAccount]_vars

\* the driver restricted to the two operations that add and remove
NextAddRemove ==
    \/ \E n \in HarnessNames, x \in HarnessTx : AccAdd(n, x)
    \/ \E n \in HarnessNames, other \in HarnessNames, i \in 1..MaxTx : AccAddCopy(n, other, i)
    \/ \E n \in HarnessNames, id \in 1..MaxTx : AccRemove(n, id)

SpecAddRemove == InitAccount /\ [][NextAddRemove]_vars

\* the registry and the add/remove driver together: the runs of the program
\* and the runs of the driver
SpecLedger == (Init \/ InitAccount) /\ [][Next \/ NextAddRemove]_vars

----------------------------------------------------------------------------
(* CurrencyConverter and CurrencyFetcher: one converter used by two threads, *)
(* a reader (convert, is_currency_supported, save_rates_to_file) and a      *)
(* refresher (update_rates, set_rates, load_rates_from_file).  A rate is a  *)
(* whole number of RUB; a JSON document is kept as what the code asks of    *)
(* it: whether it parses, whether it has the key, and its items in the      *)
(* order nlohmann::json iterates them (by key).                             *)

EUR == Str("EUR")

\* the key order of a nlohmann::json object (std::map)
CodeOrder == <<EUR, RUB, USD>>

\* rates[code] = rate
Put(rates, code, rate) ==
    [c \in DOMAIN rates \cup {code} |-> IF c = code THEN rate ELSE rates[c]]

\* the loop of CurrencyFetcher::parse_json and the RUB entry after it; an
\* item that lacks a key or holds a value of the wrong type throws, and the
\* catch returns false with rates as the loop left it
RECURSIVE ParseItems(_, _, _)
ParseItems(items, i, rates) ==
    IF i > Len(items) THEN [ok |-> TRUE, rates |-> Put(rates, RUB, 1)]
    ELSE IF ~items[i].well THEN [ok |-> FALSE, rates |-> rates]
    ELSE ParseItems(items, i + 1,
                    Put(rates, items[i].CharCode, items[i].Value \div items[i].Nominal))

\* CurrencyFetcher::parse_json: its return value and the out-parameter rates
parse_json(json, rates) ==
    IF ~json.parses THEN [ok |-> FALSE, rates |-> rates]
    ELSE IF ~json.hasValute THEN [ok |-> FALSE, rates |-> rates]
    ELSE ParseItems(json.items, 1, rates)

\* the lambda of CurrencyFetcher::fetch_rates: the tables it passes to its
\* callback, one per invocation
fetch_rates_NoReturn(response) ==
    IF ~response.success THEN <<NoRates, NoRates>>
    ELSE <<parse_json(response.json, NoRates).rates>>

fetch_rates(response) ==
    IF ~response.success THEN <<NoRates>>
    ELSE <<parse_json(response.json, NoRates).rates>>

\* the loop of CurrencyConverter::load_rates_from_file, after rates_.clear()
RECURSIVE LoadEntries(_, _, _)
LoadEntries(entries, i, rates) ==
    IF i > Len(entries) THEN [ret |-> TRUE, rates |-> rates]
    ELSE IF ~entries[i].number THEN [ret |-> FALSE, rates |-> rates]
    ELSE LoadEntries(entries, i + 1, Put(rates, entries[i].key, entries[i].value))

\* CurrencyConverter::load_rates_from_file: its return value and rates_
load_rates_from_file(rates, file) ==
    IF ~file.exists THEN [ret |-> FALSE, rates |-> rates]
    ELSE IF ~file.parses THEN [ret |-> FALSE, rates |-> rates]
    ELSE LoadEntries(file.entries, 1, NoRates)

RECURSIVE DumpEntries(_, _)
DumpEntries(rates, i) ==
    IF i > Len(CodeOrder) THEN <<>>
    ELSE (IF CodeOrder[i] \in DOMAIN rates
          THEN <<[key |-> CodeOrder[i], value |-> rates[CodeOrder[i]], number |-> TRUE]>>
          ELSE <<>>) \o DumpEntries(rates, i + 1)

\* CurrencyConverter::save_rates_to_file: the file it writes
save_rates_to_file(rates) ==
    [exists |-> TRUE, parses |-> TRUE, entries |-> DumpEntries(rates, 1)]

\* what CurlHttpClient::Get hands to its callback
NoJson == [parses |-> FALSE, hasValute |-> FALSE, items |-> <<>>]
Responses ==
    { [success |-> FALSE, json |-> NoJson],
      [success |-> TRUE, json |-> NoJson],
      [success |-> TRUE, json |-> [parses |-> TRUE, hasValute |-> FALSE, items |-> <<>>]],
      [success |-> TRUE,
       json |-> [parses |-> TRUE, hasValute |-> TRUE,
                 items |-> <<[CharCode |-> USD, Value |-> 900, Nominal |-> 10,
                              well |-> TRUE]>>]],
      [success |-> TRUE,
       json |-> [parses |-> TRUE, hasValute |-> TRUE,
                 items |-> <<[CharCode |-> EUR, Value |-> 100, Nominal |-> 1,
                              well |-> TRUE],
                             [CharCode |-> USD, Value |-> 0, Nominal |-> 0,
                              well |-> FALSE]>>]] }

\* what the rates file may hold when the converter is constructed
RateFiles ==
    { NoRatesFile,
      [exists |-> TRUE, parses |-> FALSE, entries |-> <<>>],
      save_rates_to_file(FullRates),
      [exists |-> TRUE, parses |-> TRUE,
       entries |-> <<[key |-> RUB, value |-> 1, number |-> TRUE],
                     [key |-> USD, value |-> 0, number |-> FALSE]>>] }

Codes == {RUB, USD, EUR}
ConvertAmounts == {10000, 75050}

Reading == {"convert_body", "supported_body", "save_body"}
Replacing == {"update_assign", "set_assign", "load_body"}

Returned(t, op, ok, val) == ret' = [ret EXCEPT ![t] = [op |-> op, ok |-> ok, val |-> val]]
Goto(t, label) == pc' = [pc EXCEPT ![t] = label]
Flag(b) == IF b THEN 1 ELSE 0
Word(b) == IF b THEN "true" ELSE "false"

\* the variables of the ledger, which the converter's threads do not touch
ledgerVars == <<accounts, currentAccount, stale, next_id, dataFile, phase, maintained>>

InitRates ==
    /\ accounts = Emplace(NoAccounts, DefaultName)
    /\ currentAccount = DefaultName
    /\ stale = NoStale
    /\ next_id = 1
    /\ rates_ = NoRates
    /\ dataFile = NoFile
    /\ phase = "converter"
    /\ last = Op("CurrencyConverter", "ok")
    /\ maintained = {}
    /\ rates_mutex_ = "free"
    /\ pc = [t \in Threads |-> "idle"]
    /\ call = [t \in Threads |-> NoCall]
    /\ ret = [t \in Threads |-> NoReturn]
    /\ pending = <<>>
    /\ called = 0
    /\ ratesFile \in RateFiles
    /\ DriversIdle

\* convert: std::lock_guard lock(rates_mutex_)
ConvertBegin(amount, from, to) ==
    /\ phase = "converter"
    /\ pc["reader"] = "idle"
    /\ rates_mutex_ = "free"
    /\ rates_mutex_' = "reader"
    /\ call' = [call EXCEPT !["reader"] = [NoCall EXCEPT !.amount = amount,
                                                         !.from = from, !.to = to]]
    /\ Goto("reader", "convert_body")
    /\ UNCHANGED <<driverVars, ledgerVars, rates_, last, ret, pending, called, ratesFile>>

\* convert: the body, and the lock released on the way out
ConvertEnd ==
    /\ phase = "converter"
    /\ pc["reader"] = "convert_body"
    /\ LET c == call["reader"]
           r == convert(rates_, c.amount, c.from, c.to)
       IN  /\ Returned("reader", "convert", r.ok, r.val)
           /\ last' = Op("convert", IF r.ok THEN "ok" ELSE "threw")
    /\ rates_mutex_' = "free"
    /\ Goto("reader", "idle")
    /\ UNCHANGED <<driverVars, ledgerVars, rates_, call, pending, called, ratesFile>>

\* is_currency_supported is entered; it takes no lock
SupportedBegin(code) ==
    /\ phase = "converter"
    /\ pc["reader"] = "idle"
    /\ call' = [call EXCEPT !["reader"] = [NoCall EXCEPT !.from = code]]
    /\ Goto("reader", "supported_body")
    /\ UNCHANGED <<driverVars, ledgerVars, rates_, rates_mutex_, last, ret, pending, called, ratesFile>>

\* is_currency_supported: rates_.find(code).  A find that runs while another
\* thread assigns to rates_ is a data race, and may return either answer.
SupportedEnd ==
    /\ phase = "converter"
    /\ pc["reader"] = "supported_body"
    /\ \E answer \in BOOLEAN :
        /\ \/ answer = is_currency_supported(rates_, call["reader"].from)
           \/ pc["refresher"] \in Replacing
        /\ Returned("reader", "is_currency_supported", TRUE, Flag(answer))
        /\ last' = Op("is_currency_supported", Word(answer))
    /\ Goto("reader", "idle")
    /\ UNCHANGED <<driverVars, ledgerVars, rates_, rates_mutex_, call, pending, called, ratesFile>>

\* save_rates_to_file: std::lock_guard lock(rates_mutex_)
SaveRatesBegin ==
    /\ phase = "converter"
    /\ pc["reader"] = "idle"
    /\ rates_mutex_ = "free"
    /\ rates_mutex_' = "reader"
    /\ call' = [call EXCEPT !["reader"] = NoCall]
    /\ Goto("reader", "save_body")
    /\ UNCHANGED <<driverVars, ledgerVars, rates_, last, ret, pending, called, ratesFile>>

\* save_rates_to_file: the file is written if it could be opened
SaveRatesEnd ==
    /\ phase = "converter"
    /\ pc["reader"] = "save_body"
    /\ \E canOpen \in BOOLEAN :
        /\ ratesFile' = IF canOpen THEN save_rates_to_file(rates_) ELSE ratesFile
        /\ Returned("reader", "save_rates_to_file", TRUE, Flag(canOpen))
        /\ last' = Op("save_rates_to_file", IF canOpen THEN "ok" ELSE "refused")
    /\ rates_mutex_' = "free"
    /\ Goto("reader", "idle")
    /\ UNCHANGED <<driverVars, ledgerVars, rates_, call, pending, called>>

\* set_rates: std::lock_guard lock(rates_mutex_)
SetRatesBegin(new_rates) ==
    /\ phase = "converter"
    /\ pc["refresher"] = "idle"
    /\ rates_mutex_ = "free"
    /\ rates_mutex_' = "refresher"
    /\ call' = [call EXCEPT !["refresher"] = [NoCall EXCEPT !.new_rates = new_rates]]
    /\ Goto("refresher", "set_assign")
    /\ UNCHANGED <<driverVars, ledgerVars, rates_, last, ret, pending, called, ratesFile>>

\* set_rates: rates_ = new_rates
SetRatesEnd ==
    /\ phase = "converter"
    /\ pc["refresher"] = "set_assign"
    /\ rates_' = call["refresher"].new_rates
    /\ Returned("refresher", "set_rates", TRUE, 0)
    /\ last' = Op("set_rates", "ok")
    /\ rates_mutex_' = "free"
    /\ Goto("refresher", "idle")
    /\ UNCHANGED <<driverVars, ledgerVars, call, pending, called, ratesFile>>

\* load_rates_from_file: std::lock_guard lock(rates_mutex_)
LoadRatesBegin ==
    /\ phase = "converter"
    /\ pc["refresher"] = "idle"
    /\ rates_mutex_ = "free"
    /\ rates_mutex_' = "refresher"
    /\ call' = [call EXCEPT !["refresher"] = NoCall]
    /\ Goto("refresher", "load_body")
    /\ UNCHANGED <<driverVars, ledgerVars, rates_, last, ret, pending, called, ratesFile>>

\* load_rates_from_file: the body
LoadRatesEnd ==
    /\ phase = "converter"
    /\ pc["refresher"] = "load_body"
    /\ LET r == load_rates_from_file(rates_, ratesFile)
       IN  /\ rates_' = r.rates
           /\ Returned("refresher", "load_rates_from_file", TRUE, Flag(r.ret))
           /\ last' = Op("load_rates_from_file", Word(r.ret))
    /\ rates_mutex_' = "free"
    /\ Goto("refresher", "idle")
    /\ UNCHANGED <<driverVars, ledgerVars, call, pending, called, ratesFile>>

\* the completion callbacks a caller passes to update_rates: one that only
\* reports the flag, and one that on success recomputes balances, which
\* calls convert (Account::recalculateBalance, Transaction::get_amount_in_rub)
Callbacks == {"report", "recalculate"}

\* update_rates(callback) down to CurlHttpClient::Get, which performs the
\* request and calls the lambda of fetch_rates with the response
UpdateBegin(response, callback) ==
    /\ phase = "converter"
    /\ pc["refresher"] = "idle"
    /\ pending' = fetch_rates(response)
    /\ called' = 0
    /\ call' = [call EXCEPT !["refresher"] = [NoCall EXCEPT !.callback = callback]]
    /\ Goto("refresher", "update_deliver")
    /\ UNCHANGED <<driverVars, ledgerVars, rates_, rates_mutex_, last, ret, ratesFile>>

\* the lambda of update_rates is called: std::lock_guard lock(rates_mutex_)
UpdateLock ==
    /\ phase = "converter"
    /\ pc["refresher"] = "update_deliver"
    /\ pending # <<>>
    /\ rates_mutex_ = "free"
    /\ rates_mutex_' = "refresher"
    /\ Goto("refresher", "update_assign")
    /\ UNCHANGED <<driverVars, ledgerVars, rates_, last, call, ret, pending, called, ratesFile>>

\* the lambda of update_rates: rates_ = new_rates; callback(!new_rates.empty()).
\* The callback runs inside the lambda, whose lock_guard is released when the
\* lambda returns.  A callback that does not call the converter returns at
\* once; the recomputing one, told of success, goes on to call convert.
UpdateAssign ==
    /\ phase = "converter"
    /\ pc["refresher"] = "update_assign"
    /\ rates_' = Head(pending)
    /\ pending' = Tail(pending)
    /\ called' = called + 1
    /\ Returned("refresher", "callback", TRUE, Flag(DOMAIN Head(pending) # {}))
    /\ last' = Op("callback", Word(DOMAIN Head(pending) # {}))
    /\ IF call["refresher"].callback = "recalculate" /\ DOMAIN Head(pending) # {}
       THEN /\ UNCHANGED rates_mutex_
            /\ Goto("refresher", "callback_convert")
       ELSE /\ rates_mutex_' = "free"
            /\ Goto("refresher", "update_deliver")
    /\ UNCHANGED <<driverVars, ledgerVars, call, ratesFile>>

\* the callback calls convert on the thread that runs the lambda:
\* std::lock_guard lock(rates_mutex_) on the mutex that thread holds.  The
\* thread blocks for ever, or (the relock being undefined behaviour) convert
\* goes through and the callback and the lambda return.
CallbackConvert ==
    /\ phase = "converter"
    /\ pc["refresher"] = "callback_convert"
    /\ \/ /\ Goto("refresher", "callback_blocked")
          /\ last' = Op("convert", "hung")
          /\ UNCHANGED rates_mutex_
       \/ /\ Goto("refresher", "update_deliver")
          /\ last' = Op("convert", "ok")
          /\ rates_mutex_' = "free"
    /\ UNCHANGED <<driverVars, ledgerVars, rates_, call, ret, pending, called, ratesFile>>

\* Get, fetch_rates and update_rates return
UpdateReturn ==
    /\ phase = "converter"
    /\ pc["refresher"] = "update_deliver"
    /\ pending = <<>>
    /\ last' = Op("update_rates", "ok")
    /\ Goto("refresher", "idle")
    /\ UNCHANGED <<driverVars, ledgerVars, rates_, rates_mutex_, call, ret, pending, called, ratesFile>>

NextRates ==
    \/ \E amount \in ConvertAmounts, from \in Codes, to \in Codes :
        ConvertBegin(amount, from, to)
    \/ ConvertEnd
    \/ \E code \in Codes : SupportedBegin(code)
    \/ SupportedEnd
    \/ SaveRatesBegin
    \/ SaveRatesEnd
    \/ \E new_rates \in RateTables : SetRatesBegin(new_rates)
    \/ SetRatesEnd
    \/ LoadRatesBegin
    \/ LoadRatesEnd
    \/ \E response \in Responses, callback \in Callbacks : UpdateBegin(response, callback)
    \/ UpdateLock
    \/ UpdateAssign
    \/ CallbackConvert
    \/ UpdateReturn

SpecRates == InitRates /\ [][NextRates]_vars

----------------------------------------------------------------------------
(* Transaction: one object driven through add_tag and remove_tag *)

\* six of the tags of Transaction::get_available_tags, one more than MAX_TAGS
TagPool == {Str("food"), Str("taxi"), Str("cinema"), Str("books"), Str("rent"), Str("other")}

\* the values of the size_t argument of remove_tag
TagIndexes == 0..(MAX_TAGS + 1)

\* the other variables of a driver that works on one object
DriverInit(ph, op) ==
    /\ ConverterIdle
    /\ accounts = Emplace(NoAccounts, DefaultName)
    /\ currentAccount = DefaultName
    /\ stale = NoStale
    /\ next_id = 1
    /\ rates_ = NoRates
    /\ dataFile = NoFile
    /\ phase = ph
    /\ last = Op(op, "ok")
    /\ maintained = {}

InitTags ==
    /\ DriverInit("tags", "Transaction")
    /\ DriversIdle

\* Transaction::add_tag
TagAdd(tag) ==
    /\ phase = "tags"
    /\ LET r == add_tag(tx, tag)
       IN  /\ tx' = r.val
           /\ last' = Op("add_tag", IF r.ok THEN "ok" ELSE "threw")
    /\ UNCHANGED <<ledgerVars, rates_, ratesVars, dateObj, transactions_mutex, expected>>

\* Transaction::remove_tag
TagRemove(index) ==
    /\ phase = "tags"
    /\ tx' = remove_tag(tx, index)
    /\ last' = Op("remove_tag", "ok")
    /\ UNCHANGED <<ledgerVars, rates_, ratesVars, dateObj, transactions_mutex, expected>>

NextTags ==
    \/ \E tag \in TagPool : TagAdd(tag)
    \/ \E index \in TagIndexes : TagRemove(index)

SpecTags == InitTags /\ [][NextTags]_vars

----------------------------------------------------------------------------
(* Date: one object driven through its constructor, its setters and ==,   *)
(* the right operand of == being the date of a Transaction                 *)

\* the int arguments the driver passes
Years == {1999, 2024, 2100, 2101}
Months == {0, 2, 4, 12, 13}
Days == {0, 28, 29, 30, 31, 32}

\* the dates the driver gives to Transaction::set_date
OtherDates == {MkDate(2024, 2, 28), MkDate(2024, 2, 29), MkDate(2024, 4, 29),
               MkDate(2100, 2, 28)}

InitDate ==
    /\ DriverInit("date", "Date")
    /\ DriversIdle

\* Date d(y, m, d): when the constructor throws no object is made, and the
\* driver goes on with the Date it has
DateConstruct(y, m, d) ==
    /\ phase = "date"
    /\ LET r == Date(y, m, d)
       IN  /\ dateObj' = IF r.ok THEN r.val ELSE dateObj
           /\ last' = Op("Date", IF r.ok THEN "ok" ELSE "threw")
    /\ UNCHANGED <<ledgerVars, rates_, ratesVars, tx, transactions_mutex, expected>>

\* Date::seet_year
DateSetYear(y) ==
    /\ phase = "date"
    /\ LET r == seet_year(dateObj, y)
       IN  /\ dateObj' = r.val
           /\ last' = Op("seet_year", IF r.ok THEN "ok" ELSE "threw")
    /\ UNCHANGED <<ledgerVars, rates_, ratesVars, tx, transactions_mutex, expected>>

\* Date::seet_month
DateSetMonth(m) ==
    /\ phase = "date"
    /\ LET r == seet_month(dateObj, m)
       IN  /\ dateObj' = r.val
           /\ last' = Op("seet_month", IF r.ok THEN "ok" ELSE "threw")
    /\ UNCHANGED <<ledgerVars, rates_, ratesVars, tx, transactions_mutex, expected>>

\* Date::seet_day
DateSetDay(d) ==
    /\ phase = "date"
    /\ LET r == seet_day(dateObj, d)
       IN  /\ dateObj' = r.val
           /\ last' = Op("seet_day", IF r.ok THEN "ok" ELSE "threw")
    /\ UNCHANGED <<ledgerVars, rates_, ratesVars, tx, transactions_mutex, expected>>

\* Transaction::set_date
TxSetDate(d) ==
    /\ phase = "date"
    /\ LET r == set_date(tx, d)
       IN  /\ tx' = r.val
           /\ last' = Op("set_date", IF r.ok THEN "ok" ELSE "threw")
    /\ UNCHANGED <<ledgerVars, rates_, ratesVars, dateObj, transactions_mutex, expected>>

\* d == t.get_date()
DateEquals ==
    /\ phase = "date"
    /\ last' = Op("operator==", Word(DateEq(dateObj, tx.date)))
    /\ UNCHANGED <<ledgerVars, rates_, ratesVars, driverVars>>

NextDate ==
    \/ \E y \in Years, m \in Months, d \in Days : DateConstruct(y, m, d)
    \/ \E y \in Years : DateSetYear(y)
    \/ \E m \in Months : DateSetMonth(m)
    \/ \E d \in Days : DateSetDay(d)
    \/ \E d \in OtherDates : TxSetDate(d)
    \/ DateEquals

SpecDate == InitDate /\ [][NextDate]_vars

----------------------------------------------------------------------------
(* Account: two threads calling addTransaction and removeTransaction on   *)
(* one Account, each statement of the two methods a step                  *)

AccThreads == {"t1", "t2"}

\* the transactions the threads pass, constructed before the threads start
ThreadTx(id) ==
    [DefaultTransaction(id) EXCEPT !.amount = IF id % 2 = 1 THEN 150000 ELSE 75050,
                                   !.type = IF id % 2 = 1 THEN INCOME ELSE EXPENSE,
                                   !.category = Str("Salary")]

\* the locals of a call: the argument, the iterator of std::find_if (0 is
\* end()) and the balance read by the compound assignment
NoLocals == [id |-> 0, it |-> 0, tmp |-> 0]

InitThreads ==
    /\ accounts = [n \in {NameA} |-> Account(n)]
    /\ currentAccount = NameA
    /\ stale = NoStale
    /\ next_id = MaxTx + 1
    /\ rates_ = NoRates
    /\ dataFile = NoFile
    /\ phase = "threads"
    /\ last = Op("Account", "ok")
    /\ maintained = {NameA}
    /\ rates_mutex_ = "free"
    /\ pc = [t \in AccThreads |-> "idle"]
    /\ call = [t \in AccThreads |-> NoLocals]
    /\ ret = [t \in AccThreads |-> NoReturn]
    /\ pending = <<>>
    /\ called = 0
    /\ ratesFile = NoRatesFile
    /\ DriversIdle

CanLock_Always(mutex) == TRUE

\* std::lock_guard<std::mutex>: the constructor returns once the mutex is free
CanLock(mutex) == mutex = "free"

\* what a step of a thread leaves alone besides the account, the mutex and
\* the thread's own position
ThreadFrame ==
    UNCHANGED <<currentAccount, stale, next_id, rates_, dataFile, phase, maintained,
                rates_mutex_, pending, called, ratesFile, tx, dateObj>>

Shared == accounts[NameA]

\* a thread calls addTransaction(t), t having the id
AddCall(t, id) ==
    /\ phase = "threads"
    /\ pc[t] = "idle"
    /\ call' = [call EXCEPT ![t] = [NoLocals EXCEPT !.id = id]]
    /\ Goto(t, "add_lock")
    /\ UNCHANGED <<accounts, transactions_mutex, expected, last, ret>>
    /\ ThreadFrame

\* addTransaction: std::lock_guard lock(transactions_mutex)
AddLock(t) ==
    /\ phase = "threads"
    /\ pc[t] = "add_lock"
    /\ CanLock(transactions_mutex)
    /\ transactions_mutex' = t
    /\ Goto(t, "add_check")
    /\ UNCHANGED <<accounts, expected, last, call, ret>>
    /\ ThreadFrame

\* addTransaction: the std::any_of test, and the throw that releases the lock
AddCheck(t) ==
    /\ phase = "threads"
    /\ pc[t] = "add_check"
    /\ IF HasId(Shared, call[t].id)
       THEN /\ transactions_mutex' = "free"
            /\ Returned(t, "addTransaction", FALSE, 0)
            /\ last' = Op("addTransaction", "threw")
            /\ Goto(t, "idle")
       ELSE /\ Goto(t, "add_push")
            /\ UNCHANGED <<transactions_mutex, ret, last>>
    /\ UNCHANGED <<accounts, expected, call>>
    /\ ThreadFrame

\* addTransaction: transactions.push_back(t)
AddPush(t) ==
    /\ phase = "threads"
    /\ pc[t] = "add_push"
    /\ accounts' = [accounts EXCEPT ![NameA].transactions = Append(@, ThreadTx(call[t].id))]
    /\ Goto(t, "add_load")
    /\ UNCHANGED <<transactions_mutex, expected, last, call, ret>>
    /\ ThreadFrame

\* addTransaction: balance += ..., the read of balance
AddLoad(t) ==
    /\ phase = "threads"
    /\ pc[t] = "add_load"
    /\ call' = [call EXCEPT ![t].tmp = Shared.balance]
    /\ Goto(t, "add_store")
    /\ UNCHANGED <<accounts, transactions_mutex, expected, last, ret>>
    /\ ThreadFrame

\* addTransaction: balance += ..., the write, and the return that releases
\* the lock
AddStore(t) ==
    /\ phase = "threads"
    /\ pc[t] = "add_store"
    /\ accounts' = [accounts EXCEPT ![NameA].balance =
                        call[t].tmp + get_signed_amount(ThreadTx(call[t].id))]
    /\ transactions_mutex' = "free"
    /\ expected' = [expected EXCEPT ![call[t].id] = @ + 1]
    /\ Returned(t, "addTransaction", TRUE, 0)
    /\ last' = Op("addTransaction", "ok")
    /\ Goto(t, "idle")
    /\ UNCHANGED call
    /\ ThreadFrame

\* a thread calls removeTransaction(id)
RemoveCall(t, id) ==
    /\ phase = "threads"
    /\ pc[t] = "idle"
    /\ call' = [call EXCEPT ![t] = [NoLocals EXCEPT !.id = id]]
    /\ Goto(t, "rm_lock")
    /\ UNCHANGED <<accounts, transactions_mutex, expected, last, ret>>
    /\ ThreadFrame

\* removeTransaction: std::lock_guard lock(transactions_mutex)
RemoveLock(t) ==
    /\ phase = "threads"
    /\ pc[t] = "rm_lock"
    /\ CanLock(transactions_mutex)
    /\ transactions_mutex' = t
    /\ Goto(t, "rm_find")
    /\ UNCHANGED <<accounts, expected, last, call, ret>>
    /\ ThreadFrame

\* removeTransaction: std::find_if, and return false when it gives end()
RemoveFind(t) ==
    /\ phase = "threads"
    /\ pc[t] = "rm_find"
    /\ LET it == FirstWithId(Shared, call[t].id)
       IN  IF it # 0
           THEN /\ call' = [call EXCEPT ![t].it = it]
                /\ Goto(t, "rm_load")
                /\ UNCHANGED <<transactions_mutex, ret, last>>
           ELSE /\ transactions_mutex' = "free"
                /\ Returned(t, "removeTransaction", TRUE, Flag(FALSE))
                /\ last' = Op("removeTransaction", "refused")
                /\ Goto(t, "idle")
                /\ UNCHANGED call
    /\ UNCHANGED <<accounts, expected>>
    /\ ThreadFrame

\* an iterator that another thread's erase has left past the end
Invalidated(t) == call[t].it > Len(Shared.transactions)

\* removeTransaction: balance -= it->get_signed_amount(), the read of balance
RemoveLoad(t) ==
    /\ phase = "threads"
    /\ pc[t] = "rm_load"
    /\ call' = [call EXCEPT ![t].tmp = Shared.balance]
    /\ Goto(t, "rm_store")
    /\ UNCHANGED <<accounts, transactions_mutex, expected, last, ret>>
    /\ ThreadFrame

\* removeTransaction: balance -= it->get_signed_amount(), the write.  With an
\* invalidated iterator the read of *it is undefined: the thread is taken to
\* stop there.
RemoveStore(t) ==
    /\ phase = "threads"
    /\ pc[t] = "rm_store"
    /\ IF Invalidated(t)
       THEN /\ Goto(t, "crashed")
            /\ UNCHANGED accounts
       ELSE /\ accounts' = [accounts EXCEPT ![NameA].balance =
                    call[t].tmp - get_signed_amount(Shared.transactions[call[t].it])]
            /\ Goto(t, "rm_erase")
    /\ UNCHANGED <<transactions_mutex, expected, last, call, ret>>
    /\ ThreadFrame

\* removeTransaction: transactions.erase(it); return true
RemoveErase(t) ==
    /\ phase = "threads"
    /\ pc[t] = "rm_erase"
    /\ accounts' = [accounts EXCEPT ![NameA].transactions =
                        IF Invalidated(t) THEN @ ELSE RemoveAt(@, call[t].it)]
    /\ transactions_mutex' = "free"
    /\ expected' = [expected EXCEPT ![call[t].id] = @ - 1]
    /\ Returned(t, "removeTransaction", TRUE, Flag(TRUE))
    /\ last' = Op("removeTransaction", "ok")
    /\ Goto(t, "idle")
    /\ UNCHANGED call
    /\ ThreadFrame

NextThreads ==
    \/ \E t \in AccThreads, id \in 1..MaxTx : AddCall(t, id)
    \/ \E t \in AccThreads : AddLock(t)
    \/ \E t \in AccThreads : AddCheck(t)
    \/ \E t \in AccThreads : AddPush(t)
    \/ \E t \in AccThreads : AddLoad(t)
    \/ \E t \in AccThreads : AddStore(t)
    \/ \E t \in AccThreads, id \in 1..MaxTx : RemoveCall(t, id)
    \/ \E t \in AccThreads : RemoveLock(t)
    \/ \E t \in AccThreads : RemoveFind(t)
    \/ \E t \in AccThreads : RemoveLoad(t)
    \/ \E t \in AccThreads : RemoveStore(t)
    \/ \E t \in AccThreads : RemoveErase(t)

SpecThreads == InitThreads /\ [][NextThreads]_vars

----------------------------------------------------------------------------
(* The properties *)

TypeOK ==
    /\ phase \in {"constructing", "running", "exited", "terminated", "crashed",
                  "hung", "harness", "converter"}
    /\ rates_mutex_ \in {"free"} \cup Threads
    /\ called \in 0..1
    /\ currentAccount \in DOMAIN accounts \cup {Dangling}
    /\ \A n \in DOMAIN accounts : accounts[n].name = n
    /\ next_id >= 1

AllRub(acc) == \A i \in 1..Len(acc.transactions) : acc.transactions[i].currency_ = RUB

Sign(t) == IF t.type = INCOME THEN 1 ELSE -1

\* the sum of the amounts in RUB, income counted positive and expense negative
RECURSIVE SignedSumInRub(_, _, _)
SignedSumInRub(txs, rates, i) ==
    IF i > Len(txs) THEN 0
    ELSE Sign(txs[i]) * get_amount_in_rub(txs[i], rates).val
         + SignedSumInRub(txs, rates, i + 1)

Amounts(acc) == [i \in 1..Len(acc.transactions) |-> acc.transactions[i].amount]
Types(acc) == [i \in 1..Len(acc.transactions) |-> acc.transactions[i].type]

\* C1: on an account that holds only RUB transactions and whose balance only
\* addTransaction and removeTransaction have written, recalculateBalance
\* leaves a balance within 0.01 of the balance it found.
C1_RecalcWithinTolerance ==
    [][\A n \in HarnessNames :
        (AccRecalculate(n) /\ n \in maintained /\ AllRub(accounts[n]))
        => Abs(accounts'[n].balance - accounts[n].balance) < Tolerance]_vars

\* an account that add/remove brought to a single RUB expense has been
\* recalculated, and its balance is the expense counted positive
C1_Witness ==
    /\ last = Op("recalculateBalance", "ok")
    /\ \E n \in HarnessNames \ maintained :
        /\ AllRub(accounts[n])
        /\ Types(accounts[n]) = <<EXPENSE>>
        /\ accounts[n].balance = accounts[n].transactions[1].amount

\* C2: recalculateBalance sets the balance to the sum of the amounts in RUB
\* signed by type, income positive and expense negative.
C2_RecalcIsSignedSum ==
    [][\A n \in HarnessNames :
        (AccRecalculate(n) /\ last'.result = "ok")
        => accounts'[n].balance = SignedSumInRub(accounts[n].transactions, rates_, 1)]_vars

\* the example of the claim: 1500 income and 750.50 expense, recalculated to
\* 2250.50 and not to 749.50
C2_Witness ==
    /\ last = Op("recalculateBalance", "ok")
    /\ \E n \in HarnessNames :
        /\ Amounts(accounts[n]) = <<150000, 75050>>
        /\ Types(accounts[n]) = <<INCOME, EXPENSE>>
        /\ AllRub(accounts[n])
        /\ accounts[n].balance = 225050

Tuples(acc) == [i \in 1..Len(acc.transactions) |-> TxTuple(acc.transactions[i])]

\* C3: the file saveData writes, loaded into a fresh registry, gives every
\* account the (id, amount, type, category, date, currency, description,
\* tags) tuples it held when it was saved.
C3_SaveLoadRoundTrip ==
    [][(SaveData /\ dataFile'.exists)
        => \A n \in DOMAIN accounts :
            /\ n \in DOMAIN LoadResult(dataFile', rates_, 1).accounts
            /\ Tuples(LoadResult(dataFile', rates_, 1).accounts[n]) = Tuples(accounts[n])]_vars

\* a file has been written that holds an amount of more than six significant
\* digits rounded to six
C3_Witness ==
    /\ last = Op("saveData", "ok")
    /\ dataFile.exists
    /\ \E i \in 1..Len(dataFile.lines) :
        Len(Split(dataFile.lines[i], COMMA)) >= MinFields
        /\ Split(dataFile.lines[i], COMMA)[2] = FormatDouble(1234570)

\* C4: while the program runs, currentAccount refers to an account that is
\* in the accounts map.
C4_CurrentAccountLive == phase = "running" => currentAccount \in DOMAIN accounts

\* deleteAccount has erased the active account and currentAccount refers to
\* the erased entry
C4_Witness ==
    /\ phase = "running"
    /\ last = Op("deleteAccount", "ok")
    /\ currentAccount = Dangling

\* C5: while the program runs, the default account is in the accounts map.
C5_DefaultPresent == phase = "running" => DefaultName \in DOMAIN accounts

\* deleteAccount has erased the default account
C5_Witness ==
    /\ phase = "running"
    /\ last = Op("deleteAccount", "ok")
    /\ DefaultName \notin DOMAIN accounts
    /\ DOMAIN accounts # {}

\* C6: deleteAccount on a registry of exactly one account is refused and
\* leaves the accounts map and currentAccount as they were, and the accounts
\* map is never empty.
C6_LastAccountKept ==
    /\ [](DOMAIN accounts # {})
    /\ [][\A choice \in 0..4 :
            (DeleteAccount(choice) /\ Cardinality(DOMAIN accounts) = 1)
            => /\ last' = Op("deleteAccount", "refused")
               /\ accounts' = accounts
               /\ currentAccount' = currentAccount]_vars

\* deleteAccount has been refused on a registry of one account
C6_Witness ==
    /\ phase = "running"
    /\ last = Op("deleteAccount", "refused")
    /\ Cardinality(DOMAIN accounts) = 1

SharedTx(a, b) ==
    \E i \in 1..Len(a.transactions), j \in 1..Len(b.transactions) :
        a.transactions[i] = b.transactions[j]

\* C7: a merge_account that returns leaves self with the transactions of
\* both accounts and a balance within 0.01 of the sum of both balances, and
\* leaves other with no transaction, so that none is held by both.
C7_MergeMoves ==
    [][\A self \in HarnessNames, other \in HarnessNames :
        (AccMerge(self, other) /\ last'.result = "ok")
        => /\ Len(accounts'[self].transactions) =
                Len(accounts[self].transactions) + Len(accounts[other].transactions)
           /\ Abs(accounts'[self].balance
                  - (accounts[self].balance + accounts[other].balance)) < Tolerance
           /\ accounts'[other].transactions = <<>>
           /\ ~SharedTx(accounts'[self], accounts'[other])]_vars

\* a merge has returned and the source still holds a transaction that the
\* destination now holds too
C7_Witness ==
    /\ last = Op("merge_account", "ok")
    /\ SharedTx(accounts[NameA], accounts[NameB])

RECURSIVE TotalCount(_, _, _)
TotalCount(m, keys, i) ==
    IF i > Len(keys) THEN 0
    ELSE Len(m[keys[i]].transactions) + TotalCount(m, keys, i + 1)

CountAll(m) == TotalCount(m, SortedKeys(m), 1)

\* C8: renameAccount with an unused name (not empty, not the cancel input,
\* not in the map): the entry newName holds the transactions the active
\* account held, in order, with its balance; the number of transactions in the
\* registry is the same; the old entry is erased or left without
\* transactions, and every other entry is as it was.
C8_RenameMoves ==
    [][\A newName \in RenameNames :
        (/\ RenameAccount(newName)
         /\ newName \notin DOMAIN accounts \cup {CancelName, EmptyStr})
        => /\ newName \in DOMAIN accounts'
           /\ currentAccount' = newName
           /\ accounts'[newName].transactions = CurObj.transactions
           /\ accounts'[newName].balance = CurObj.balance
           /\ CountAll(accounts') = CountAll(accounts)
           /\ \A n \in DOMAIN accounts' \ {newName} :
                IF n = currentAccount THEN accounts'[n].transactions = <<>>
                ELSE accounts'[n] = accounts[n]]_vars

\* renameAccount is about to be called with currentAccount pointing at the
\* erased default account, which held a transaction, and a name is unused
C8_Witness ==
    /\ phase = "running"
    /\ last = Op("deleteAccount", "ok")
    /\ ~Live
    /\ stale.transactions # <<>>
    /\ NameB \notin DOMAIN accounts

\* the same property of the renames made while currentAccount points into the
\* map
RenameMovesLive ==
    [][\A newName \in RenameNames :
        (/\ RenameAccount(newName)
         /\ Live
         /\ newName \notin DOMAIN accounts \cup {CancelName, EmptyStr})
        => /\ newName \in DOMAIN accounts'
           /\ currentAccount' = newName
           /\ accounts'[newName].transactions = accounts[currentAccount].transactions
           /\ accounts'[newName].balance = accounts[currentAccount].balance
           /\ CountAll(accounts') = CountAll(accounts)
           /\ \A n \in DOMAIN accounts' \ {newName} :
                IF n = currentAccount THEN accounts'[n].transactions = <<>>
                ELSE accounts'[n] = accounts[n]]_vars

\* C9: while the program runs, no two transactions in the registry, in one
\* account or in two, have the same id.
C9_UniqueIds ==
    phase = "running" =>
        \A n1 \in DOMAIN accounts, n2 \in DOMAIN accounts :
            \A i \in 1..Len(accounts[n1].transactions),
               j \in 1..Len(accounts[n2].transactions) :
                <<n1, i>> # <<n2, j>>
                => accounts[n1].transactions[i].id # accounts[n2].transactions[j].id

\* loadData has returned and two accounts hold a transaction of the same id
C9_Witness ==
    /\ phase = "running"
    /\ last = Op("loadData", "ok")
    /\ NameA \in DOMAIN accounts
    /\ \E i \in 1..Len(accounts[NameA].transactions),
          j \in 1..Len(accounts[DefaultName].transactions) :
            accounts[NameA].transactions[i].id = accounts[DefaultName].transactions[j].id

WellFormed(line) ==
    /\ line # <<>>
    /\ ~starts_with(line, <<HDR>>)
    /\ ParseRecord(line, DefaultTransaction(1)).ok

\* the account a line belongs to: the one the nearest header above it names
RECURSIVE SectionOf(_, _)
SectionOf(lines, i) ==
    IF i = 0 THEN DefaultName
    ELSE IF starts_with(lines[i], <<HDR>>) /\ Find(lines[i], RBR) # 0
         THEN HeaderName(lines[i], Find(lines[i], RBR))
         ELSE SectionOf(lines, i - 1)

\* C10: for every file and every rate table loadData returns, and every
\* well-formed record of the file, whatever lines stand before and after it,
\* is then held by its account.
C10_LoadNeverAborts ==
    [][LoadData
        => /\ phase' = "running"
           /\ \A i \in 1..Len(dataFile.lines) :
                WellFormed(dataFile.lines[i])
                => /\ SectionOf(dataFile.lines, i) \in DOMAIN accounts'
                   /\ HasId(accounts'[SectionOf(dataFile.lines, i)],
                            ParseRecord(dataFile.lines[i], DefaultTransaction(1)).id)]_vars

\* loadData has thrown and the process has ended
C10_Witness ==
    /\ phase = "terminated"
    /\ last = Op("loadData", "threw")

\* the id a record line shows: fields[0] of a line of six or more fields, 0
\* when the line shows none
ObservedId(line) ==
    IF line = <<>> \/ starts_with(line, <<HDR>>) THEN 0
    ELSE IF Len(Split(line, COMMA)) < MinFields THEN 0
    ELSE IF stoi(Split(line, COMMA)[1]).ok THEN stoi(Split(line, COMMA)[1]).val
    ELSE 0

RECURSIVE ObservedMax(_, _)
ObservedMax(lines, i) ==
    IF i > Len(lines) THEN 0
    ELSE IF ObservedId(lines[i]) > ObservedMax(lines, i + 1)
         THEN ObservedId(lines[i]) ELSE ObservedMax(lines, i + 1)

\* C11: when loadData returns, next_id is one more than the largest id the
\* file shows (if it shows one), and it is greater than the id of every
\* transaction in the registry.
C11_LoadResetsIds ==
    [][(LoadData /\ phase' = "running")
        => /\ ObservedMax(dataFile.lines, 1) > 0
                => next_id' = ObservedMax(dataFile.lines, 1) + 1
           /\ \A n \in DOMAIN accounts' :
                \A i \in 1..Len(accounts'[n].transactions) :
                    accounts'[n].transactions[i].id < next_id']_vars

\* loadData has returned with a transaction of id 2 in the registry and the
\* counter at 3
C11_Witness ==
    /\ phase = "running"
    /\ last = Op("loadData", "ok")
    /\ next_id = 3
    /\ \E n \in DOMAIN accounts :
        \E i \in 1..Len(accounts[n].transactions) :
            accounts[n].transactions[i].id = 2

\* C12: a Transaction constructor call with invalid arguments (amount <= 0,
\* empty category, invalid date) fails and leaves the id counter where it
\* was.
C12_FailedCtorKeepsId ==
    [][\A a \in CtorArgs :
        (/\ AccConstruct(a)
         /\ (a.amount <= 0 \/ a.category = EmptyStr \/ ~is_valid(a.date)))
        => /\ last'.result = "threw"
           /\ next_id' = next_id]_vars

\* the first constructor call failed in validation() and the counter is at 2
C12_Witness ==
    /\ phase = "harness"
    /\ last = Op("Transaction", "threw")
    /\ next_id = 2
    /\ \A n \in DOMAIN accounts : accounts[n].transactions = <<>>

\* C13: convert returns the amount when from = to, whatever the table; when
\* from # to it throws if from or to is not in the table (an empty table
\* holds neither); otherwise it returns amount * rate(from) / rate(to), and
\* 100 USD is 9000 RUB with {RUB: 1, USD: 90}.
C13_ConvertContract ==
    [][ConvertEnd =>
        LET c == call["reader"]
            r == ret'["reader"]
            known == c.from \in DOMAIN rates_ /\ c.to \in DOMAIN rates_
        IN  /\ c.from = c.to => (r.ok /\ r.val = c.amount)
            /\ (c.from # c.to /\ ~known) => ~r.ok
            /\ (c.from # c.to /\ known)
                => /\ r.ok
                   /\ Abs(r.val * rates_[c.to] - c.amount * rates_[c.from]) < rates_[c.to]
            /\ (rates_ = FullRates /\ c.amount = 10000 /\ c.from = USD /\ c.to = RUB)
                => r.val = 900000]_vars

\* convert has returned 9000 RUB for 100 USD
C13_Witness ==
    /\ phase = "converter"
    /\ rates_ = FullRates
    /\ call["reader"].from = USD
    /\ call["reader"].to = RUB
    /\ ret["reader"] = [op |-> "convert", ok |-> TRUE, val |-> 900000]

\* convert has thrown on a table that holds rates but not the currency asked
C13_WitnessUnknown ==
    /\ phase = "converter"
    /\ rates_ = FullRates
    /\ call["reader"].from = EUR
    /\ ret["reader"].op = "convert"
    /\ ~ret["reader"].ok

\* convert has returned the amount for from = to on an empty table
C13_WitnessSame ==
    /\ phase = "converter"
    /\ rates_ = NoRates
    /\ call["reader"].from = USD
    /\ call["reader"].to = USD
    /\ ret["reader"] = [op |-> "convert", ok |-> TRUE, val |-> 10000]

\* C14: a refresh that reports failure does not empty a table that held
\* rates, and it has fallen back to the persisted cache: when the rates file
\* loads, the table is the one the file holds.
C14_FailedRefreshFallsBack ==
    [][(UpdateAssign /\ ret'["refresher"].val = 0)
        => /\ rates_ # NoRates => rates_' # NoRates
           /\ load_rates_from_file(rates_, ratesFile).ret
                => rates_' = load_rates_from_file(rates_, ratesFile).rates]_vars

\* a refresh has reported failure and the table is empty, after convert had
\* found the USD rate in it, with a cache on disk that loads
C14_Witness ==
    /\ phase = "converter"
    /\ last = Op("callback", "false")
    /\ rates_ = NoRates
    /\ call["reader"].from = USD
    /\ ret["reader"] = [op |-> "convert", ok |-> TRUE, val |-> 900000]
    /\ load_rates_from_file(rates_, ratesFile).ret

\* C15: update_rates invokes its completion callback exactly once: never
\* more than once during the call, and once by the time the call returns.
C15_CallbackOnce ==
    /\ [](phase = "converter" => called <= 1)
    /\ [][UpdateReturn => called = 1]_vars

\* update_rates has returned after its callback reported failure
C15_Witness ==
    /\ phase = "converter"
    /\ last = Op("update_rates", "ok")
    /\ pc["refresher"] = "idle"
    /\ called = 1
    /\ ret["refresher"] = [op |-> "callback", ok |-> TRUE, val |-> 0]

\* update_rates has returned after its callback reported success
C15_WitnessSuccess ==
    /\ phase = "converter"
    /\ last = Op("update_rates", "ok")
    /\ pc["refresher"] = "idle"
    /\ called = 1
    /\ ret["refresher"] = [op |-> "callback", ok |-> TRUE, val |-> 1]

\* C16: after a refresh whose callback reports success, the table holds RUB
\* at rate 1.
C16_SuccessHasReference ==
    [][(UpdateAssign /\ ret'["refresher"].val = 1)
        => (RUB \in DOMAIN rates_' /\ rates_'[RUB] = 1)]_vars

\* the callback has reported success and the table has no RUB entry
C16_Witness ==
    /\ phase = "converter"
    /\ last = Op("callback", "true")
    /\ rates_ # NoRates
    /\ RUB \notin DOMAIN rates_

\* C17: when load_rates_from_file returns false, the table is what it was
\* before the call.
C17_FailedLoadKeepsRates ==
    [][(LoadRatesEnd /\ ret'["refresher"].val = 0) => rates_' = rates_]_vars

\* load_rates_from_file has returned false and the table has lost the USD
\* rate convert had found in it
C17_Witness ==
    /\ phase = "converter"
    /\ last = Op("load_rates_from_file", "false")
    /\ USD \notin DOMAIN rates_
    /\ call["reader"].from = USD
    /\ ret["reader"] = [op |-> "convert", ok |-> TRUE, val |-> 900000]

\* C18: no reader of the table (convert, is_currency_supported,
\* save_rates_to_file) is in its body while a replacement of the table
\* (update_rates, set_rates, load_rates_from_file) is in progress.
C18_ReadersExcluded ==
    ~(pc["reader"] \in Reading /\ pc["refresher"] \in Replacing)

\* is_currency_supported is in its body while update_rates holds the lock
\* and assigns the table
C18_Witness ==
    /\ phase = "converter"
    /\ pc["reader"] = "supported_body"
    /\ pc["refresher"] = "update_assign"
    /\ rates_mutex_ = "refresher"

\* the readers that lock: convert and save_rates_to_file are never in their
\* body while a replacement is in progress
LockedReadersExcluded ==
    ~(pc["reader"] \in {"convert_body", "save_body"} /\ pc["refresher"] \in Replacing)

\* C19: a.move_transactions_from(b) gives a the transactions and the balance
\* of b, and leaves b with no transactions and a balance of zero.
C19_MoveEmptiesSource ==
    [][\A self \in HarnessNames, other \in HarnessNames :
        AccMove(self, other)
        => /\ accounts'[self].transactions = accounts[other].transactions
           /\ accounts'[self].balance = accounts[other].balance
           /\ accounts'[other].transactions = <<>>
           /\ accounts'[other].balance = 0]_vars

\* a move has left its source without transactions and with the balance it
\* had, which the destination now has too
C19_Witness ==
    /\ phase = "harness"
    /\ last = Op("move_transactions_from", "ok")
    /\ accounts[NameB].transactions = <<>>
    /\ accounts[NameB].balance # 0
    /\ accounts[NameA].transactions # <<>>
    /\ accounts[NameA].balance = accounts[NameB].balance

\* the part of the move that concerns the destination and the source's
\* transactions
MoveTransfers ==
    [][\A self \in HarnessNames, other \in HarnessNames :
        AccMove(self, other)
        => /\ accounts'[self].transactions = accounts[other].transactions
           /\ accounts'[self].balance = accounts[other].balance
           /\ accounts'[other].transactions = <<>>]_vars

\* C20: renameAccount called with a name while the registry holds exactly one
\* account is refused and leaves the registry as it was.
C20_SoleAccountNotRenamed ==
    [][\A newName \in RenameNames \ {EmptyStr} :
        (RenameAccount(newName) /\ Cardinality(DOMAIN accounts) = 1)
        => /\ last'.result = "refused"
           /\ UNCHANGED <<accounts, currentAccount>>]_vars

\* renameAccount has renamed the only account of the registry: the registry
\* holds one account, under the new name
C20_Witness ==
    /\ phase = "running"
    /\ last = Op("renameAccount", "ok")
    /\ Cardinality(DOMAIN accounts) = 1
    /\ currentAccount = NameB

\* C21: an operation rejected for a duplicate changes nothing: createAccount
\* and renameAccount with a name that is a key of the map leave the map and
\* currentAccount as they were, and addTransaction of a transaction whose id
\* the account holds throws and leaves the account's list and balance as they
\* were.
C21_DuplicateRejected ==
    [][/\ last'.op = "createAccount"
          => \A name \in CreateNames :
                (name \in DOMAIN accounts /\ CreateAccount(name))
                => (last'.result = "refused" /\ UNCHANGED <<accounts, currentAccount>>)
       /\ last'.op = "renameAccount"
          => \A newName \in RenameNames :
                (newName \in DOMAIN accounts /\ RenameAccount(newName))
                => (last'.result = "refused" /\ UNCHANGED <<accounts, currentAccount>>)
       /\ last'.op = "addTransaction"
          => \A n \in HarnessNames, other \in HarnessNames, i \in 1..MaxTx :
                (/\ AccAddCopy(n, other, i)
                 /\ HasId(accounts[n], accounts[other].transactions[i].id))
                => (last'.result = "threw" /\ accounts'[n] = accounts[n])]_vars

\* addTransaction has thrown on an account that holds the id, and the
\* account has one transaction and the balance of that transaction
C21_Witness ==
    /\ phase = "harness"
    /\ last = Op("addTransaction", "threw")
    /\ Len(accounts[NameA].transactions) = 1
    /\ accounts[NameA].balance = get_signed_amount(accounts[NameA].transactions[1])

\* createAccount has refused a name that is in the map
C21_WitnessCreate ==
    /\ phase = "running"
    /\ last = Op("createAccount", "refused")
    /\ NameA \in DOMAIN accounts

\* renameAccount has refused a name that is in the map
C21_WitnessRename ==
    /\ phase = "running"
    /\ last = Op("renameAccount", "refused")
    /\ NameA \in DOMAIN accounts
    /\ currentAccount = NameA

\* C22: removeTransaction(id) with an id that no transaction of the account
\* has returns false and leaves the list and the balance as they were; with
\* an id that is held it removes one transaction, which has that id, lowers
\* the balance by the signed amount of that transaction and returns true.
\* No other account changes.
C22_RemoveContract ==
    [][\A n \in HarnessNames, id \in 1..MaxTx :
        AccRemove(n, id)
        => /\ \A m \in HarnessNames \ {n} : accounts'[m] = accounts[m]
           /\ IF HasId(accounts[n], id)
              THEN /\ last'.result = "ok"
                   /\ \E i \in 1..Len(accounts[n].transactions) :
                        /\ accounts[n].transactions[i].id = id
                        /\ accounts'[n].transactions = RemoveAt(accounts[n].transactions, i)
                        /\ accounts'[n].balance =
                             accounts[n].balance - get_signed_amount(accounts[n].transactions[i])
              ELSE /\ last'.result = "refused"
                   /\ accounts'[n] = accounts[n]]_vars

\* removeTransaction has returned true: two transactions were constructed,
\* one of them is left, and the balance is its signed amount
C22_Witness ==
    /\ phase = "harness"
    /\ last = Op("removeTransaction", "ok")
    /\ next_id = 3
    /\ Len(accounts[NameA].transactions) = 1
    /\ accounts[NameB].transactions = <<>>
    /\ accounts[NameA].balance = get_signed_amount(accounts[NameA].transactions[1])

\* removeTransaction has returned false on an account that holds a
\* transaction with another id
C22_WitnessNotFound ==
    /\ phase = "harness"
    /\ last = Op("removeTransaction", "refused")
    /\ Len(accounts[NameA].transactions) = 1
    /\ accounts[NameB].transactions = <<>>
    /\ accounts[NameA].balance = get_signed_amount(accounts[NameA].transactions[1])

NoDuplicates(s) == \A i \in 1..Len(s), j \in 1..Len(s) : s[i] = s[j] => i = j

\* C23: a transaction never holds more than MAX_TAGS tags nor the same tag
\* twice; add_tag on a transaction with MAX_TAGS tags throws, add_tag of a
\* tag that is present throws, and both leave the tags as they were;
\* remove_tag with an index that is not below the number of tags changes
\* nothing.
C23_TagsBounded ==
    /\ [](Len(tx.tags_) <= MAX_TAGS /\ NoDuplicates(tx.tags_))
    /\ [][/\ \A tag \in TagPool :
               (/\ TagAdd(tag)
                /\ \/ Len(tx.tags_) >= MAX_TAGS
                   \/ \E i \in 1..Len(tx.tags_) : tx.tags_[i] = tag)
               => (last'.result = "threw" /\ tx' = tx)
          /\ \A index \in TagIndexes :
               (TagRemove(index) /\ index >= Len(tx.tags_)) => tx' = tx]_vars

\* add_tag has thrown on a transaction that holds MAX_TAGS tags
C23_Witness ==
    /\ phase = "tags"
    /\ last = Op("add_tag", "threw")
    /\ Len(tx.tags_) = MAX_TAGS

\* add_tag has thrown on a transaction that holds fewer than MAX_TAGS tags:
\* the tag was present
C23_WitnessDuplicate ==
    /\ phase = "tags"
    /\ last = Op("add_tag", "threw")
    /\ Len(tx.tags_) = 2

\* remove_tag has returned on a transaction that holds MAX_TAGS tags
C23_WitnessRemove ==
    /\ phase = "tags"
    /\ last = Op("remove_tag", "ok")
    /\ Len(tx.tags_) = MAX_TAGS

\* the length of a month of the calendar
MonthLength(y, m) ==
    IF m \in {4, 6, 9, 11} THEN 30
    ELSE IF m # 2 THEN 31
    ELSE IF y % 400 = 0 \/ (y % 4 = 0 /\ y % 100 # 0) THEN 29
    ELSE 28

CalendarDate(y, m, d) ==
    /\ y \in MinYear..MaxYear
    /\ m \in 1..12
    /\ d \in 1..MonthLength(y, m)

C24_WitnessDay ==
    /\ phase = "date"
    /\ last = Op("seet_day", "threw")
    /\ dateObj.month = 4

\* seet_month has rejected a month on a Date of day 31
C24_WitnessMonth ==
    /\ phase = "date"
    /\ last = Op("seet_month", "threw")
    /\ dateObj.day = 31

\* the constructor has thrown
C24_WitnessCtor ==
    /\ phase = "date"
    /\ last = Op("Date", "threw")
    /\ dateObj = MkDate(2100, 2, 28)

\* C29: Date operator== returns true exactly when the two dates have the
\* same year, the same month and the same day.
C29_EqualsIsIdentity ==
    [][DateEquals
       => (last'.result = "true"
           <=> /\ dateObj.year = tx.date.year
               /\ dateObj.month = tx.date.month
               /\ dateObj.day = tx.date.day)]_vars

\* operator== has returned true for 28 February 2024 and 29 February 2024
C29_Witness ==
    /\ phase = "date"
    /\ last = Op("operator==", "true")
    /\ dateObj = MkDate(2024, 2, 28)
    /\ tx.date = MkDate(2024, 2, 29)

\* operator== has returned true for two dates that are the same
C29_WitnessSame ==
    /\ phase = "date"
    /\ last = Op("operator==", "true")
    /\ dateObj = tx.date

\* C25: merge_account always returns: no call of it leaves the calling
\* thread waiting for transactions_mutex, which it holds.
C25_MergeReturns ==
    [][\A self \in HarnessNames, other \in HarnessNames :
        AccMerge(self, other) => (phase' # "hung" /\ last'.result # "hung")]_vars

\* merge_account has inserted the transactions of the other account and
\* waits in recalculateBalance for the lock it took on entry
C25_Witness ==
    /\ phase = "hung"
    /\ last = Op("merge_account", "hung")
    /\ Len(accounts[NameA].transactions) = 1
    /\ Len(accounts[NameB].transactions) = 1

ValidFields(t) ==
    /\ t.amount > 0
    /\ t.category # EmptyStr
    /\ t.type \in {INCOME, EXPENSE}

\* C26: every transaction held by an account has amount > 0, a non-empty
\* category and a type that is income or expense, in every reachable state.
C26_HeldTransactionsValid ==
    \A n \in DOMAIN accounts :
        \A i \in 1..Len(accounts[n].transactions) : ValidFields(accounts[n].transactions[i])

\* loadData has returned and the default account holds the record of the
\* line "1,-50,7,,2023 5 15, , ,-"
C26_Witness ==
    /\ phase = "running"
    /\ last.op = "loadData"
    /\ Len(accounts[DefaultName].transactions) = 1
    /\ accounts[DefaultName].transactions[1].amount = -5000
    /\ accounts[DefaultName].transactions[1].category = EmptyStr
    /\ accounts[DefaultName].transactions[1].type = 7

\* the transaction a record line gives, whichever object the loop constructed
RecordOf(line) == ParseRecord(line, DefaultTransaction(1))

\* the transactions the registry m holds that the line gave
HeldFrom(m, line) ==
    {t \in UNION {{m[n].transactions[i] : i \in 1..Len(m[n].transactions)} : n \in DOMAIN m} :
        RecordOf(line).ok /\ RecordOf(line).val = t}

\* C27: when loadData reads a record whose description field is blank, the
\* loaded transaction's description is "--"; when the currency field is
\* blank, the loaded transaction's currency is RUB.
C27_BlankFieldsDefaulted ==
    [][(LoadData /\ phase' = "running")
       => \A k \in 1..Len(dataFile.lines) :
            LET fields == Split(dataFile.lines[k], COMMA)
            IN  \A t \in HeldFrom(accounts', dataFile.lines[k]) :
                    /\ (Len(fields) > 6 /\ Trim(fields[7]) = EmptyStr)
                       => t.description = Str("--")
                    /\ Trim(fields[6]) = EmptyStr => t.currency_ = RUB]_vars

\* loadData has read the line "1,1500,0,Salary,2023 5 15,RUB,,-" and the
\* transaction it gave has the empty description
C27_Witness ==
    /\ phase = "running"
    /\ last.op = "loadData"
    /\ Len(accounts[DefaultName].transactions) = 1
    /\ accounts[DefaultName].transactions[1].category = Str("Salary")
    /\ accounts[DefaultName].transactions[1].description = EmptyStr

\* loadData has read the line with the blank currency field and the
\* transaction it gave has the currency RUB
C27_WitnessCurrency ==
    /\ phase = "running"
    /\ last.op = "loadData"
    /\ Len(accounts[DefaultName].transactions) = 1
    /\ accounts[DefaultName].transactions[1].category = EmptyStr
    /\ accounts[DefaultName].transactions[1].currency_ = RUB

\* the currency half of C27 on its own
CurrencyDefaulted ==
    [][(LoadData /\ phase' = "running")
       => \A k \in 1..Len(dataFile.lines) :
            \A t \in HeldFrom(accounts', dataFile.lines[k]) :
                Trim(Split(dataFile.lines[k], COMMA)[6]) = EmptyStr => t.currency_ = RUB]_vars

Quiescent == \A t \in AccThreads : pc[t] = "idle"

HeldCount(acc, id) ==
    Cardinality({i \in 1..Len(acc.transactions) : acc.transactions[i].id = id})

RECURSIVE SignedSum(_, _)
SignedSum(txs, i) ==
    IF i > Len(txs) THEN 0 ELSE get_signed_amount(txs[i]) + SignedSum(txs, i + 1)

\* C28: concurrent addTransaction and removeTransaction calls of two threads
\* on one Account are atomic: whenever both threads are between calls, the
\* list holds exactly the transactions that were added and not removed, and
\* the balance is the sum of their signed amounts.
C28_AtomicAddRemove ==
    (phase = "threads" /\ Quiescent)
    => /\ \A id \in 1..MaxTx : HeldCount(accounts[NameA], id) = expected[id]
       /\ \A i \in 1..Len(accounts[NameA].transactions) :
            accounts[NameA].transactions[i] = ThreadTx(accounts[NameA].transactions[i].id)
       /\ accounts[NameA].balance = SignedSum(accounts[NameA].transactions, 1)

\* both threads are between calls: one has added transaction 2, the other
\* has then removed transaction 1, which had been added before
C28_Witness ==
    /\ phase = "threads"
    /\ Quiescent
    /\ ret["t1"] = [op |-> "addTransaction", ok |-> TRUE, val |-> 0]
    /\ ret["t2"] = [op |-> "removeTransaction", ok |-> TRUE, val |-> 1]
    /\ last = Op("removeTransaction", "ok")
    /\ accounts[NameA].transactions = <<ThreadTx(2)>>

\* one thread is between the read and the write of balance += ..., holding
\* the lock, while the other has called removeTransaction for the transaction
\* being added and waits for the lock
C28_WitnessContention ==
    /\ phase = "threads"
    /\ pc["t1"] = "add_store"
    /\ pc["t2"] = "rm_lock"
    /\ call["t1"].id = call["t2"].id
    /\ transactions_mutex = "t1"

\* C30: update_rates invokes its completion callback while the calling
\* thread does not hold rates_mutex_, and a callback that calls convert is
\* never left waiting for that lock.
C30_CallbackOutsideLock ==
    /\ pc["refresher"] = "callback_convert" => rates_mutex_ # "refresher"
    /\ pc["refresher"] # "callback_blocked"

\* the callback, told of success, has called convert and waits for the lock
\* that update_rates holds on the same thread
C30_Witness ==
    /\ phase = "converter"
    /\ pc["refresher"] = "callback_blocked"
    /\ rates_mutex_ = "refresher"
    /\ ret["refresher"] = [op |-> "callback", ok |-> TRUE, val |-> 1]
    /\ last = Op("convert", "hung")

====
